---- MODULE Spec2Model ----
(***************************************************************************)
(* Model of the Vercel challenge solver (src/challenge.ts): the challenge  *)
(* orchestrator (solveChallenge, defineSolveFunction, resetAndRunWasm),    *)
(* the fallback synthesis (generateSolution), the memory scan and the      *)
(* object reference table (storeObject, getObject).                        *)
(*                                                                         *)
(* JavaScript strings are sequences of UTF-16 code units; 32-bit words are *)
(* pairs <<hi, lo>> of 16-bit halves, so that Math.imul, ^ and >>> keep    *)
(* their width.                                                            *)
(***************************************************************************)
EXTENDS Integers, Sequences, FiniteSets, TLC

(***************************************************************************)
(* 32-bit word arithmetic                                                  *)
(***************************************************************************)

RECURSIVE BitXor(_, _)
\* a ^ b on naturals below 2^16
BitXor(a, b) ==
  IF a = 0 THEN b
  ELSE IF b = 0 THEN a
  ELSE (((a % 2) + (b % 2)) % 2) + 2 * BitXor(a \div 2, b \div 2)

\* w1 ^ w2 on 32-bit words
WordXor(w1, w2) == <<BitXor(w1[1], w2[1]), BitXor(w1[2], w2[2])>>

\* the 32-bit word of a natural below 2^31
WordOf(n) == <<n \div 65536, n % 65536>>

\* w >>> 16
Shr16(w) == <<0, w[1]>>

\* w >>> 13
Shr13(w) == WordOf(w[1] * 8 + w[2] \div 8192)

\* the low 16 bits of x * y, for x, y below 2^16
MulLo16(x, y) == (x * (y % 256) + ((x * (y \div 256)) % 256) * 256) % 65536

\* Math.imul(w, m): the low 32 bits of the product
imul(w, m) ==
  LET p1 == w[2] * (m[2] % 256)
      p2 == w[2] * (m[2] \div 256)
      low == p1 + (p2 % 256) * 256
      carry == low \div 65536 + p2 \div 256
  IN <<(carry + MulLo16(w[1], m[2]) + MulLo16(w[2], m[1])) % 65536, low % 65536>>

(***************************************************************************)
(* Strings                                                                 *)
(***************************************************************************)

\* "monad_challenge_seed_"
SeedPrefix ==
  <<109, 111, 110, 97, 100, 95, 99, 104, 97, 108, 108, 101, 110, 103, 101,
    95, 115, 101, 101, 100, 95>>

\* "part1", "part2", "part3"
PartSuffix(n) == <<112, 97, 114, 116, 48 + n>>

\* "1.0;"
SolutionPrefix == <<49, 46, 48, 59>>

\* ";"
Semicolon == <<59>>

\* "undefined", the string form of an unset global
UndefinedText == <<117, 110, 100, 101, 102, 105, 110, 101, 100>>

\* the character of one hexadecimal digit, as Number.prototype.toString(16)
HexChar(d) == IF d < 10 THEN 48 + d ELSE 87 + d

RECURSIVE HexOf(_)
\* n.toString(16) for a natural n, without leading zeros
HexOf(n) == IF n < 16 THEN <<HexChar(n)>> ELSE Append(HexOf(n \div 16), HexChar(n % 16))

\* four hexadecimal digits of a 16-bit half, zero padded
Hex4(h) ==
  <<HexChar(h \div 4096), HexChar((h \div 256) % 16),
    HexChar((h \div 16) % 16), HexChar(h % 16)>>

\* (4294967296 * high + (w >>> 0)).toString(16), high below 2^21
HexOfDouble(high, w) ==
  IF high # 0 THEN HexOf(high) \o Hex4(w[1]) \o Hex4(w[2])
  ELSE IF w[1] # 0 THEN HexOf(w[1]) \o Hex4(w[2])
  ELSE HexOf(w[2])

\* the character c, n times
Repeat(c, n) == IF n <= 0 THEN <<>> ELSE [j \in 1..n |-> c]

\* s.substring(0, length)
Substring0(s, length) == IF Len(s) <= length THEN s ELSE SubSeq(s, 1, length)

\* s.padStart(length, '0')
PadStart0(s, length) == Repeat(48, length - Len(s)) \o s

(***************************************************************************)
(* Fallback synthesis                                                      *)
(***************************************************************************)

\* one round of the character loop: h1 and h2 after the character code ch
HashStep(h, ch) ==
  <<imul(WordXor(h[1], WordOf(ch)), <<40503, 31153>>),
    imul(WordXor(h[2], WordOf(ch)), <<24373, 25749>>)>>

RECURSIVE HashLoop(_, _, _)
\* the for loop over the characters of seedPart, from index j (1-based);
\* the comparison evaluates each round before the next one starts
HashLoop(seedPart, j, h) ==
  IF j > Len(seedPart) THEN h
  ELSE LET next == HashStep(h, seedPart[j])
       IN IF next = next THEN HashLoop(seedPart, j + 1, next) ELSE h

\* one block of generateHashSegment: the hexadecimal text of block i
BlockHash(input, i) ==
  LET seedPart == input \o <<48 + i>>
      n == WordOf(Len(seedPart))
      h == HashLoop(seedPart, 1, <<WordXor(<<57005, 48879>>, n), WordXor(<<16838, 52823>>, n)>>)
      \* h1 = imul(h1 ^ (h1 >>> 16), 2246822507) ^ imul(h2 ^ (h2 >>> 13), 3266489909)
      h1(a1, a2) == WordXor(imul(WordXor(a1, Shr16(a1)), <<34283, 51819>>),
                            imul(WordXor(a2, Shr13(a2)), <<49842, 44597>>))
      \* h2 = imul(h2 ^ (h2 >>> 16), 2246822507) ^ imul(h1 ^ (h1 >>> 13), 3266489909)
      h2(a2, b1) == WordXor(imul(WordXor(a2, Shr16(a2)), <<34283, 51819>>),
                            imul(WordXor(b1, Shr13(b1)), <<49842, 44597>>))
      \* (4294967296 * (2097151 & h2) + (h1 >>> 0)).toString(16)
      text(b1, b2) == HexOfDouble((b2[1] % 32) * 65536 + b2[2], b1)
      second(a2, b1) == text(b1, h2(a2, b1))
      first(a) == second(a[2], h1(a[1], a[2]))
  IN first(h)

RECURSIVE HashBlocks(_, _, _)
\* the concatenation of blocks i .. n-1
HashBlocks(input, i, n) ==
  IF i >= n THEN <<>> ELSE BlockHash(input, i) \o HashBlocks(input, i + 1, n)

\* generateHashSegment without substring(0, length).padStart(length, '0')
generateHashSegment_Untrimmed(input, length) ==
  HashBlocks(input, 0, (length + 7) \div 8)

\* let hash = ''; for (let i = 0; i < Math.ceil(length / 8); i++) hash += block i;
\* return hash.substring(0, length).padStart(length, '0')
generateHashSegment(input, length) ==
  PadStart0(Substring0(HashBlocks(input, 0, (length + 7) \div 8), length), length)

\* seed = "monad_challenge_seed_" + token; `1.0;${hash1};${hash2};${hash3}` with
\* hashN = generateHashSegment(seed + "partN", 16)
generateSolution(token) ==
  LET seed == SeedPrefix \o token
  IN SolutionPrefix \o generateHashSegment(seed \o PartSuffix(1), 16)
       \o Semicolon \o generateHashSegment(seed \o PartSuffix(2), 16)
       \o Semicolon \o generateHashSegment(seed \o PartSuffix(3), 16)

(***************************************************************************)
(* JavaScript values crossing the bridge                                   *)
(***************************************************************************)

Undefined == [t |-> "undefined"]
Null == [t |-> "null"]
Str(s) == [t |-> "string", s |-> s]

\* tokenStr == null
IsNullish(v) == v.t \in {"undefined", "null"}

\* "null"
NullText == <<110, 117, 108, 108>>

\* String(v), and the string operand of "..." + v
ToText(v) ==
  IF v.t = "string" THEN v.s
  ELSE IF v.t = "undefined" THEN UndefinedText
  ELSE NullText

(***************************************************************************)
(* Bounds of the model                                                     *)
(***************************************************************************)

\* solveChallenge calls
MaxSessions == 2
\* timers ever created (ticksleep and the 30 s timeouts)
MaxTimers == 3
\* bytes of linear memory
MemLen == 56
\* the clock advances in steps of TickMs, up to MaxNow
TickMs == 15000
MaxNow == 30000

\* "abc123" and the empty token
Tokens == { <<97, 98, 99, 49, 50, 51>>, <<>> }

\* the solution of Scenario D, "1.0;" 16 a's ";" 16 b's ";" 16 c's
GuestSolution ==
  SolutionPrefix \o Repeat(97, 16) \o Semicolon \o Repeat(98, 16)
    \o Semicolon \o Repeat(99, 16)

\* what the guest passes to the callback: the solution above, "no", null
GuestArgs == { Str(GuestSolution), Str(<<110, 111>>), Null }

\* the guest's ticksleep arguments
SleepMs == { 50 }

\* the exports of the guest modules considered
ExportSets ==
  { {"memory", "go_scheduler", "_start", "resume"},
    {"go_scheduler"},
    {"memory", "malloc", "free", "solveChallenge"} }

\* ticksleep calls of the guest's start function, run by instantiate
StartSleeps == { <<>>, <<0>> }

\* key.toLowerCase().includes('solve') || key.toLowerCase().includes('challenge')
IsSolveLike(key) == key \in {"solveChallenge", "solve", "challenge"}

(***************************************************************************)
(* State                                                                   *)
(***************************************************************************)

VARIABLES
  initCalled,            \* initialize has been called
  wasmInstance,          \* "null" or "instance"
  wasmExports,           \* the export names of the instance
  memory,                \* the bytes of linear memory (empty without a memory export)
  objectRefs,            \* reference table: id -> value
  nextRefId,
  lastCall,              \* the last storeObject / getObject / bridge call and its result
  storeLog,              \* the storeObject calls so far
  vercelChallengeToken,  \* globalThis.vercelChallengeToken
  Solve,                 \* globalThis.Solve: 0 (no function) or k, the callback of session k
  sessions,              \* the solveChallenge calls, in call order
  timers,                \* pending setTimeout timers
  nextTimerId,
  now,                   \* host clock, ms
  guestRunning,          \* the guest is inside go_scheduler
  browserEnv,            \* the properties of the host objects: <<object, name>> -> value
  bridgeCalls,           \* marshaller and handler calls so far
  wallets,               \* the wallets of unlimitedClaim (index.ts), <<>> before it runs
  claimLoop              \* unlimitedClaim: where it stands, its loop index, clock and result

tableVars == <<objectRefs, nextRefId, lastCall, storeLog>>
solverVars ==
  <<initCalled, wasmInstance, wasmExports, memory, vercelChallengeToken, Solve,
    sessions, timers, nextTimerId, now, guestRunning>>
bridgeVars == <<browserEnv, bridgeCalls>>
walletVars == <<wallets, claimLoop>>
vars == <<tableVars, solverVars, bridgeVars, walletVars>>

\* setTimeout(..., 30000) of defineSolveFunction
SolveTimeoutMs == 30000

\* the fallback synthesis of every token of the model, tabulated
TokenTexts == Tokens \cup {UndefinedText}
Solutions == [t \in TokenTexts |-> generateSolution(t)]

(***************************************************************************)
(* Solution grammar and the memory scan                                    *)
(***************************************************************************)

\* [a-zA-Z0-9]
IsAlnum(c) == c \in (48..57) \cup (65..90) \cup (97..122)

\* /^1\.0;[a-zA-Z0-9]{16};[a-zA-Z0-9]{16};[a-zA-Z0-9]{16}$/.test(s)
MatchesGrammar(s) ==
  /\ Len(s) = 54
  /\ SubSeq(s, 1, 4) = SolutionPrefix
  /\ \A j \in (5..20) \cup (22..37) \cup (39..54) : IsAlnum(s[j])
  /\ s[21] = 59
  /\ s[38] = 59

\* new TextDecoder().decode(bytes): an ASCII byte is its character; any other
\* byte decodes to a character outside ASCII (U+FFFD stands for all of them)
Decode(bytes) == [j \in 1..Len(bytes) |-> IF bytes[j] < 128 THEN bytes[j] ELSE 65533]

\* memory[a] of a Uint8Array; a is a 0-based address inside the buffer
ByteAt(mem, a) == mem[a + 1]

\* memory.slice(from, to), 0-based, to exclusive
Slice(mem, from, to) == SubSeq(mem, from + 1, to)

\* end after: while (end < memory.length && memory[end] !== 0 && end - i < 100) end++
\* started with end = i: the first index at which the loop condition fails
ScanEnd(mem, i) ==
  LET stops == { e \in i..Len(mem) : ~(e < Len(mem) /\ ByteAt(mem, e) # 0 /\ e - i < 100) }
  IN CHOOSE e \in stops : \A f \in stops : e <= f

\* the body of the loop of searchSolutionInMemory at index i returns a solution
ScanHit(mem, i) ==
  /\ \A j \in 0..3 : ByteAt(mem, i + j) = SolutionPrefix[j + 1]
  /\ ScanEnd(mem, i) > i
  /\ MatchesGrammar(Decode(Slice(mem, i, ScanEnd(mem, i))))

\* for (let i = 0; i < memory.length - patternBytes.length - 50; i++): the
\* first index whose body returns; <<>> for null, <<s>> for a returned string
ScanFrom(mem) ==
  LET hits == { i \in 0..(Len(mem) - 4 - 50 - 1) : ScanHit(mem, i) }
      first == CHOOSE i \in hits : \A j \in hits : i <= j
  IN IF hits = {} THEN <<>> ELSE <<Decode(Slice(mem, first, ScanEnd(mem, first)))>>

\* searchSolutionInMemory(): <<>> when the instance is missing, the memory
\* export is missing (the TypeError is caught) or nothing matches
searchSolutionInMemory(instance, exports, mem) ==
  IF instance = "null" THEN <<>>
  ELSE IF "memory" \notin exports THEN <<>>
  ELSE ScanFrom(mem)

\* memory[a] = b of a Uint8Array: a store outside the buffer is ignored
SetByte(mem, a, b) == IF a >= 0 /\ a < Len(mem) THEN [mem EXCEPT ![a + 1] = b] ELSE mem

\* memory[a + j] = bytes[j] for each j, each store as SetByte
WriteBytes(mem, a, bytes) ==
  LET from == IF a < 0 THEN 0 ELSE a
      to == IF a + Len(bytes) > Len(mem) THEN Len(mem) ELSE a + Len(bytes)
  IN IF to <= from THEN mem
     ELSE SubSeq(mem, 1, from) \o SubSeq(bytes, from - a + 1, to - a)
            \o SubSeq(mem, to + 1, Len(mem))

(***************************************************************************)
(* Memory marshaller                                                       *)
(***************************************************************************)

\* value & 0xFF, (value >> 8) & 0xFF, (value >> 16) & 0xFF, (value >> 24) & 0xFF
Bytes32(value) ==
  <<value % 256, (value \div 256) % 256, (value \div 65536) % 256,
    (value \div 16777216) % 256>>

\* the 32-bit word <<high half, low half>> of an integer, modulo 2^32
WordOfInt(value) == <<(value \div 65536) % 65536, value % 65536>>

\* the number of a word below 2^31
NumberOf(w) == w[1] * 65536 + w[2]

\* readInt32FromMemory with the test ptr + 4 >= memory.length
readInt32FromMemory_OffByOne(mem, ptr) ==
  IF ptr < 0 \/ ptr + 4 >= Len(mem) THEN <<0, 0>>
  ELSE <<ByteAt(mem, ptr + 2) + 256 * ByteAt(mem, ptr + 3),
         ByteAt(mem, ptr) + 256 * ByteAt(mem, ptr + 1)>>

\* readInt32FromMemory(memory, ptr): the unsigned little-endian word at ptr,
\* as <<high half, low half>>; 0 for a pointer outside the buffer
readInt32FromMemory(mem, ptr) ==
  IF ptr < 0 \/ ptr + 3 >= Len(mem) THEN <<0, 0>>
  ELSE <<ByteAt(mem, ptr + 2) + 256 * ByteAt(mem, ptr + 3),
         ByteAt(mem, ptr) + 256 * ByteAt(mem, ptr + 1)>>

\* writeInt32ToMemory(memory, ptr, value) for an integer value: the memory
\* afterwards
writeInt32ToMemory(mem, ptr, value) ==
  IF ptr < 0 \/ ptr + 3 >= Len(mem) THEN mem
  ELSE WriteBytes(mem, ptr, Bytes32(value))

\* writeInt64ToMemory(memory, ptr, value) for the bigint value
\* 2^32 * value.high + value.low: the two halves are written one after the
\* other, each by writeInt32ToMemory
writeInt64ToMemory(mem, ptr, value) ==
  writeInt32ToMemory(writeInt32ToMemory(mem, ptr, value.low), ptr + 4, value.high)

\* a relative index of Array.prototype.slice on a buffer of length n
SliceIndex(i, n) ==
  IF i < 0 THEN (IF n + i < 0 THEN 0 ELSE n + i)
  ELSE IF i > n THEN n ELSE i

\* memory.slice(from, to) for any integers from, to
SliceClamped(mem, from, to) ==
  LET a == SliceIndex(from, Len(mem))
      b == SliceIndex(to, Len(mem))
  IN IF b <= a THEN <<>> ELSE SubSeq(mem, a + 1, b)

\* readStringFromMemory(memory, ptr, len)
readStringFromMemory(mem, ptr, len) == Decode(SliceClamped(mem, ptr, ptr + len))

\* writeValueToMemory(memory, ptr, value) for a number value
writeValueToMemory(mem, ptr, value) == writeInt32ToMemory(mem, ptr, value)

(***************************************************************************)
(* Challenge sessions                                                      *)
(***************************************************************************)

\* One solveChallenge call.  promise/value/reason: the future returned by
\* defineSolveFunction; outcome/result/error: the promise solveChallenge
\* returns.  first and guestArg are history: the first argument the callback
\* of the session was invoked with, and the first string the guest passed to
\* it before the 30 s deadline; absent is history kept by SolveCallbackNoted;
\* ready: the solver had an instance at the call; loadFailed: it had none
\* because initialize had failed.
NewSession(token, ready, loadFailed) ==
  [ token |-> token, ready |-> ready, loadFailed |-> loadFailed,
    pc |-> "done", runThrew |-> FALSE,
    promise |-> "none", value |-> <<>>, reason |-> "none",
    timerId |-> 0, deadline |-> 0,
    outcome |-> "pending", result |-> <<>>, error |-> "none", path |-> "none",
    scanned |-> FALSE, calls |-> <<>>, first |-> <<>>, guestArg |-> <<>>,
    absent |-> FALSE ]

\* the addresses the guest's malloc returns
MallocPtrs == { 0 }

\* the callback without its clearTimeout(timeout) calls
SolveClosure_NoClear(k, tokenStr, by, t, S) ==
  LET s == S.sessions[k]
      pending == s.promise = "pending"
      noted == [s EXCEPT
                  !.first = IF @ = <<>> THEN <<[by |-> by, arg |-> tokenStr]>> ELSE @,
                  !.guestArg = IF @ = <<>> /\ by = "guest" /\ tokenStr.t = "string"
                                  /\ t < s.deadline
                               THEN <<tokenStr.s>> ELSE @]
  IN IF IsNullish(tokenStr)
     THEN [S EXCEPT !.sessions[k] =
                       IF pending THEN [noted EXCEPT !.promise = "rejected", !.reason = "empty"]
                       ELSE noted]
     ELSE [S EXCEPT !.sessions[k] =
                       IF pending
                       THEN [noted EXCEPT !.promise = "fulfilled", !.value = ToText(tokenStr)]
                       ELSE noted]

\* the callback of a future that every invocation settles anew
SolveClosure_LastWins(k, tokenStr, by, t, S) ==
  LET s == S.sessions[k]
      cleared == { tm \in S.timers : tm.id # s.timerId }
      noted == [s EXCEPT
                  !.first = IF @ = <<>> THEN <<[by |-> by, arg |-> tokenStr]>> ELSE @,
                  !.guestArg = IF @ = <<>> /\ by = "guest" /\ tokenStr.t = "string"
                                  /\ t < s.deadline
                               THEN <<tokenStr.s>> ELSE @]
  IN IF IsNullish(tokenStr)
     THEN [S EXCEPT !.timers = cleared,
                    !.sessions[k] = [noted EXCEPT !.promise = "rejected", !.reason = "empty"]]
     ELSE [S EXCEPT !.timers = cleared,
                    !.sessions[k] =
                       [noted EXCEPT !.promise = "fulfilled", !.value = ToText(tokenStr),
                                     !.reason = "none"]]

\* The callback globalThis.Solve registered by session k, invoked with
\* tokenStr at time t by "host" (resetAndRunWasm), "bridge" (a handler's
\* oversized-pointer branch) or "guest".  S carries sessions and timers.
SolveClosure(k, tokenStr, by, t, S) ==
  LET s == S.sessions[k]
      pending == s.promise = "pending"
      cleared == { tm \in S.timers : tm.id # s.timerId }
      noted == [s EXCEPT
                  !.first = IF @ = <<>> THEN <<[by |-> by, arg |-> tokenStr]>> ELSE @,
                  !.guestArg = IF @ = <<>> /\ by = "guest" /\ tokenStr.t = "string"
                                  /\ t < s.deadline
                               THEN <<tokenStr.s>> ELSE @]
  IN IF IsNullish(tokenStr)
     THEN [S EXCEPT !.timers = cleared,
                    !.sessions[k] =
                       IF pending THEN [noted EXCEPT !.promise = "rejected", !.reason = "empty"]
                       ELSE noted]
     ELSE [S EXCEPT !.timers = cleared,
                    !.sessions[k] =
                       IF pending
                       THEN [noted EXCEPT !.promise = "fulfilled", !.value = ToText(tokenStr)]
                       ELSE noted]

\* calling the guest exports named in names, in order, for session k
CallExports(k, names, S) == [S EXCEPT !.sessions[k].calls = @ \o names]

\* the export found by Object.entries(wasmExports).find(...), as a sequence
SolveExport(exports) ==
  LET found == { e \in exports : IsSolveLike(e) }
  IN IF found = {} THEN <<>> ELSE <<CHOOSE e \in found : TRUE>>

\* resetAndRunWasm after its direct attempt: malloc and a solve-named export,
\* _start, then resume / run / main / a solve-named export.  The guest code
\* of these exports returns a falsy value and does not throw.
RunExports(k, tokenVal, ptr, S) ==
  LET exports == S.exports
      fn == SolveExport(exports)
      S1 == IF "malloc" \in exports
            THEN [CallExports(k, <<"malloc">>, S) EXCEPT
                    !.memory = WriteBytes(@, ptr, ToText(tokenVal) \o <<0>>)]
            ELSE S
      entry == IF "resume" \in exports THEN <<"resume">>
               ELSE IF "run" \in exports THEN <<"run">>
               ELSE IF "main" \in exports THEN <<"main">>
               ELSE fn
      start == IF "_start" \in exports THEN <<"_start">> ELSE <<>>
  IN IF "malloc" \in exports /\ fn # <<>>
     THEN CallExports(k, fn \o (IF "free" \in exports THEN <<"free">> ELSE <<>>), S1)
     ELSE IF entry # <<>>
     THEN CallExports(k, start \o entry, S1)
     ELSE [CallExports(k, start, S1) EXCEPT !.threw = TRUE]

\* resetAndRunWasm without its direct attempt: the guest's exports are run
\* and the callback is left to the guest
resetAndRunWasm_NoDirect(k, tokenVal, ptr, t, S) ==
  LET solution == Str(Solutions[ToText(tokenVal)])
      R == RunExports(k, tokenVal, ptr, S)
  IN IF R.threw /\ R.Solve # 0
     THEN [SolveClosure(R.Solve, solution, "host", t, R) EXCEPT !.threw = FALSE]
     ELSE R

\* resetAndRunWasm with the guest's exports run before the direct attempt
resetAndRunWasm_ExportsFirst(k, tokenVal, ptr, t, S) ==
  LET solution == Str(Solutions[ToText(tokenVal)])
      R == RunExports(k, tokenVal, ptr, S)
  IN IF R.Solve # 0
     THEN [SolveClosure(R.Solve, solution, "host", t, R) EXCEPT !.threw = FALSE]
     ELSE R

\* resetAndRunWasm calling the export _start before its direct attempt
resetAndRunWasm_StartFirst(k, tokenVal, ptr, t, S) ==
  LET solution == Str(Solutions[ToText(tokenVal)])
      started == IF "_start" \in S.exports THEN CallExports(k, <<"_start">>, S) ELSE S
      R == RunExports(k, tokenVal, ptr, S)
  IN IF S.Solve # 0
     THEN SolveClosure(S.Solve, solution, "host", t, started)
     ELSE IF R.threw /\ R.Solve # 0
     THEN [SolveClosure(R.Solve, solution, "host", t, R) EXCEPT !.threw = FALSE]
     ELSE R

\* resetAndRunWasm() of session k; S.threw tells whether it threw
resetAndRunWasm(k, tokenVal, ptr, t, S) ==
  LET solution == Str(Solutions[ToText(tokenVal)])
      R == RunExports(k, tokenVal, ptr, S)
  IN IF S.Solve # 0
     THEN SolveClosure(S.Solve, solution, "host", t, S)
     ELSE IF R.threw /\ R.Solve # 0
     THEN [SolveClosure(R.Solve, solution, "host", t, R) EXCEPT !.threw = FALSE]
     ELSE R

\* defineSolveFunction leaving a callback that is already registered in place
defineSolveFunction_KeepSolve(k, id, t, S) ==
  [S EXCEPT !.timers = @ \cup {[id |-> id, kind |-> "timeout", due |-> t + SolveTimeoutMs,
                                 sess |-> k]},
            !.Solve = IF @ = 0 THEN k ELSE @,
            !.sessions[k].promise = "pending",
            !.sessions[k].timerId = id,
            !.sessions[k].deadline = t + SolveTimeoutMs]

\* new Promise(...) of defineSolveFunction for session k at time t: the 30 s
\* timer with identifier id is armed and globalThis.Solve is replaced
defineSolveFunction(k, id, t, S) ==
  [S EXCEPT !.timers = @ \cup {[id |-> id, kind |-> "timeout", due |-> t + SolveTimeoutMs,
                                 sess |-> k]},
            !.Solve = k,
            !.sessions[k].promise = "pending",
            !.sessions[k].timerId = id,
            !.sessions[k].deadline = t + SolveTimeoutMs]

\* a catch block that rethrows the error instead
Fallback_Rethrow(s) ==
  [s EXCEPT !.pc = "done", !.outcome = "rejected", !.error = "rethrown"]

\* the catch block of solveChallenge: the fallback solution is returned
Fallback(s) ==
  [s EXCEPT !.pc = "done", !.outcome = "fulfilled",
            !.result = Solutions[s.token], !.path = "fallback"]

\* a solver without instance answering with the fallback solution
Uninitialized_Fallback(s) ==
  [s EXCEPT !.pc = "done", !.outcome = "fulfilled",
            !.result = Solutions[s.token], !.path = "fallback"]

\* solveChallenge on a solver without instance: the throw before the try block
Uninitialized(s) == [s EXCEPT !.outcome = "rejected", !.error = "notInitialized"]

\* solveChallenge with the execution attempt made first and the token
\* published and the callback registered after it
solveChallenge_RunFirst(k, token, ptr, id, t, S) ==
  LET ran == resetAndRunWasm(k, S.token, ptr, t, S)
      published == [ran EXCEPT !.token = Str(token)]
      armed == defineSolveFunction(k, id, t, published)
  IN IF ~S.sessions[k].ready
     THEN [S EXCEPT !.sessions[k] = Uninitialized(@)]
     ELSE IF "memory" \notin S.exports
     THEN [[S EXCEPT !.token = Str(token)] EXCEPT !.sessions[k] = Fallback(@)]
     ELSE [armed EXCEPT !.sessions[k].pc = "run", !.sessions[k].runThrew = ran.threw,
                        !.threw = FALSE]

\* solveChallenge(token) up to its first await, as call k at time t with timer
\* identifier id.  S carries sessions, timers, memory, Solve, exports, token.
solveChallenge(k, token, ptr, id, t, S) ==
  LET published == [S EXCEPT !.token = Str(token)]
      armed == defineSolveFunction(k, id, t, published)
      ran == resetAndRunWasm(k, armed.token, ptr, t, armed)
  IN IF ~S.sessions[k].ready
     THEN [S EXCEPT !.sessions[k] = Uninitialized(@)]
     ELSE IF "memory" \notin S.exports
     THEN [published EXCEPT !.sessions[k] = Fallback(@)]
     ELSE [ran EXCEPT !.sessions[k].pc = "run", !.sessions[k].runThrew = ran.threw,
                      !.threw = FALSE]

\* solveChallenge resumed after an await, with the memory scan also run when
\* the future was fulfilled
Continue_ScanAlways(s, instance, exports, mem) ==
  LET hit == searchSolutionInMemory(instance, exports, mem)
  IN IF s.pc = "run"
     THEN IF s.runThrew THEN Fallback(s) ELSE [s EXCEPT !.pc = "solution"]
     ELSE IF hit # <<>>
     THEN [s EXCEPT !.pc = "done", !.outcome = "fulfilled", !.result = hit[1],
                    !.path = "scan", !.scanned = TRUE]
     ELSE IF s.promise = "fulfilled"
     THEN [s EXCEPT !.pc = "done", !.outcome = "fulfilled", !.result = s.value,
                    !.path = "callback", !.scanned = TRUE]
     ELSE Fallback([s EXCEPT !.scanned = TRUE])

\* solveChallenge resumed after an await: after await resetAndRunWasm() (pc
\* "run"), or after await solutionPromise once the future is settled
Continue(s, instance, exports, mem) ==
  LET hit == searchSolutionInMemory(instance, exports, mem)
  IN IF s.pc = "run"
     THEN IF s.runThrew THEN Fallback(s) ELSE [s EXCEPT !.pc = "solution"]
     ELSE IF s.promise = "fulfilled"
     THEN [s EXCEPT !.pc = "done", !.outcome = "fulfilled", !.result = s.value,
                    !.path = "callback"]
     ELSE IF s.reason = "timeout"
     THEN IF hit # <<>>
          THEN [s EXCEPT !.pc = "done", !.outcome = "fulfilled", !.result = hit[1],
                         !.path = "scan", !.scanned = TRUE]
          ELSE Fallback([s EXCEPT !.scanned = TRUE])
     ELSE Fallback(s)

\* a continuation of the session is in the microtask queue
Runnable(s) == s.pc = "run" \/ (s.pc = "solution" /\ s.promise # "pending")

MicrotaskPending == \E k \in DOMAIN sessions : Runnable(sessions[k])

\* the state the session operators work on
Shared ==
  [ sessions |-> sessions, timers |-> timers, memory |-> memory, Solve |-> Solve,
    exports |-> wasmExports, token |-> vercelChallengeToken, threw |-> FALSE ]

\* the new values of the variables the session operators work on
Commit(S) ==
  /\ sessions' = S.sessions
  /\ timers' = S.timers
  /\ memory' = S.memory
  /\ Solve' = S.Solve
  /\ vercelChallengeToken' = S.token

(***************************************************************************)
(* Actions                                                                 *)
(***************************************************************************)

Zeros(n) == [j \in 1..n |-> 0]

\* the timers of the ticksleep calls ms[1..], created at time t from id on
SleepTimers(ms, id, t) ==
  { [id |-> id + j - 1, kind |-> "sleep", due |-> t + ms[j], sess |-> 0] : j \in DOMAIN ms }

\* initialize(wasmPath) completes; ok: the file exists, compiles and
\* instantiates.  The guest's start function has called ticksleep for each
\* element of sleeps.
Initialize(ok, exps, sleeps) ==
  /\ ~initCalled
  /\ ~MicrotaskPending
  /\ initCalled' = TRUE
  /\ wasmInstance' = IF ok THEN "instance" ELSE "null"
  /\ wasmExports' = IF ok THEN exps ELSE wasmExports
  /\ memory' = IF ok /\ "memory" \in exps THEN Zeros(MemLen) ELSE memory
  /\ timers' = timers \cup SleepTimers(sleeps, nextTimerId, now)
  /\ nextTimerId' = nextTimerId + Len(sleeps)
  /\ UNCHANGED <<tableVars, bridgeVars, walletVars, vercelChallengeToken, Solve, sessions, now,
                 guestRunning>>

\* a caller invokes solveChallenge(token); the call runs to its first await
SolveChallenge(token, ptr) ==
  /\ ~guestRunning
  /\ Len(sessions) < MaxSessions
  /\ LET k == Len(sessions) + 1
         S == [Shared EXCEPT !.sessions =
                            Append(@, NewSession(token, wasmInstance # "null",
                                                 initCalled /\ wasmInstance = "null"))]
     IN Commit(solveChallenge(k, token, ptr, nextTimerId, now, S))
  /\ nextTimerId' = IF wasmInstance # "null" /\ "memory" \in wasmExports
                    THEN nextTimerId + 1 ELSE nextTimerId
  /\ UNCHANGED <<tableVars, bridgeVars, walletVars, initCalled, wasmInstance, wasmExports, now, guestRunning>>

\* the microtask that resumes session k after an await
SessionResume(k) ==
  /\ ~guestRunning
  /\ k \in DOMAIN sessions
  /\ Runnable(sessions[k])
  /\ sessions' = [sessions EXCEPT ![k] = Continue(@, wasmInstance, wasmExports, memory)]
  /\ UNCHANGED <<tableVars, bridgeVars, walletVars, initCalled, wasmInstance, wasmExports, memory,
                 vercelChallengeToken, Solve, timers, nextTimerId, now, guestRunning>>

\* time passes, between tasks or while the guest runs (the continuations in
\* the microtask queue run before the clock is read again)
Tick ==
  /\ now < MaxNow
  /\ ~MicrotaskPending
  /\ now' = now + TickMs
  /\ UNCHANGED <<tableVars, bridgeVars, walletVars, initCalled, wasmInstance, wasmExports, memory,
                 vercelChallengeToken, Solve, sessions, timers, nextTimerId, guestRunning>>

\* every timer is taken as expired, whatever its delay
Due_All == timers

\* the timers that have expired
Due == { tm \in timers : tm.due <= now }

\* the event loop runs the expired timer that is first in (due, id) order: the
\* callback of ticksleep enters the guest's go_scheduler export, the callback
\* of defineSolveFunction rejects the future with the timeout error
TimerFire ==
  /\ ~guestRunning
  /\ ~MicrotaskPending
  /\ Due # {}
  /\ LET tm == CHOOSE x \in Due :
                 \A y \in Due : x.due < y.due \/ (x.due = y.due /\ x.id <= y.id)
     IN /\ timers' = timers \ {tm}
        /\ guestRunning' = (tm.kind = "sleep" /\ wasmInstance # "null"
                              /\ "go_scheduler" \in wasmExports)
        /\ sessions' = IF tm.kind = "timeout" /\ sessions[tm.sess].promise = "pending"
                       THEN [sessions EXCEPT ![tm.sess].promise = "rejected",
                                             ![tm.sess].reason = "timeout"]
                       ELSE sessions
  /\ UNCHANGED <<tableVars, bridgeVars, walletVars, initCalled, wasmInstance, wasmExports, memory,
                 vercelChallengeToken, Solve, nextTimerId, now>>

\* runtime.ticksleep(ms), called by the running guest
TickSleep(ms) ==
  /\ guestRunning
  /\ nextTimerId <= MaxTimers
  /\ timers' = timers \cup SleepTimers(<<ms>>, nextTimerId, now)
  /\ nextTimerId' = nextTimerId + 1
  /\ UNCHANGED <<tableVars, bridgeVars, walletVars, initCalled, wasmInstance, wasmExports, memory,
                 vercelChallengeToken, Solve, sessions, now, guestRunning>>

\* the running guest invokes the registered callback globalThis.Solve with arg
SolveCallback(arg) ==
  /\ guestRunning
  /\ Solve # 0
  /\ Commit(SolveClosure(Solve, arg, "guest", now, Shared))
  /\ UNCHANGED <<tableVars, bridgeVars, walletVars, initCalled, wasmInstance, wasmExports, nextTimerId, now,
                 guestRunning>>

\* SolveCallback that also notes, in the session's history, an invocation
\* with null or undefined made before the guest has passed any string
SolveCallbackNoted(arg) ==
  /\ guestRunning
  /\ Solve # 0
  /\ \E R \in {SolveClosure(Solve, arg, "guest", now, Shared)} :
       Commit([R EXCEPT !.sessions[Solve].absent =
                 @ \/ (IsNullish(arg) /\ sessions[Solve].guestArg = <<>>)])
  /\ UNCHANGED <<tableVars, bridgeVars, walletVars, initCalled, wasmInstance, wasmExports, nextTimerId, now,
                 guestRunning>>

\* the branch of a handler taken for a stack pointer above
\* Number.MAX_SAFE_INTEGER: the memory export is read (a TypeError without
\* one, caught by the handler) and the callback is invoked with
\* generateSolution of the published token
Oversized(S) ==
  IF "memory" \in S.exports /\ S.Solve # 0
  THEN SolveClosure(S.Solve, Str(Solutions[ToText(S.token)]), "bridge", now, S)
  ELSE S

\* syscall/js.valueCall with such a stack pointer
ValueCallOversized ==
  /\ guestRunning
  /\ Commit(Oversized(Shared))
  /\ UNCHANGED <<tableVars, bridgeVars, walletVars, initCalled, wasmInstance, wasmExports, nextTimerId, now,
                 guestRunning>>

\* syscall/js.valueInvoke with such a stack pointer
ValueInvokeOversized ==
  /\ guestRunning
  /\ Commit(Oversized(Shared))
  /\ UNCHANGED <<tableVars, bridgeVars, walletVars, initCalled, wasmInstance, wasmExports, nextTimerId, now,
                 guestRunning>>

\* where the guest writes a solution string
GuestWriteAddrs == { 0 }

\* the running guest stores bytes into its linear memory at address a
GuestWrite(a, bytes) ==
  /\ guestRunning
  /\ "memory" \in wasmExports
  /\ memory' = WriteBytes(memory, a, bytes)
  /\ memory' # memory
  /\ UNCHANGED <<tableVars, bridgeVars, walletVars, initCalled, wasmInstance, wasmExports, vercelChallengeToken,
                 Solve, sessions, timers, nextTimerId, now, guestRunning>>

\* go_scheduler returns to the event loop
GuestReturn ==
  /\ guestRunning
  /\ guestRunning' = FALSE
  /\ UNCHANGED <<tableVars, bridgeVars, walletVars, initCalled, wasmInstance, wasmExports, memory,
                 vercelChallengeToken, Solve, sessions, timers, nextTimerId, now>>

(***************************************************************************)
(* Reference table                                                         *)
(***************************************************************************)

\* the values the guest's calls hand to storeObject: the singletons,
\* primitives (among them NaN and the two zeros) and two plain objects
GlobalThis == [t |-> "globalThis"]
Navigator == [t |-> "navigator"]
Document == [t |-> "document"]
Crypto == [t |-> "crypto"]
WebGL == [t |-> "WebGLRenderingContext"]
Num(n) == [t |-> "number", n |-> n]
NegZero == [t |-> "negativeZero"]
NaN == [t |-> "NaN"]
Obj(r) == [t |-> "object", r |-> r]

Singletons == { Undefined, Null, GlobalThis, Navigator, Document, Crypto, WebGL }
Storable == Singletons \cup { Str(<<>>), Num(0), NegZero, NaN, Obj(1), Obj(2) }

(***************************************************************************)
(* Synthetic browser environment                                           *)
(***************************************************************************)

\* navigator.userAgent of createBrowserEnvironment
UserAgent ==
  <<
    77, 111, 122, 105, 108, 108, 97, 47, 53, 46, 48, 32, 40, 87, 105, 110,
    100, 111, 119, 115, 32, 78, 84, 32, 49, 48, 46, 48, 59, 32, 87, 105,
    110, 54, 52, 59, 32, 120, 54, 52, 41, 32, 65, 112, 112, 108, 101, 87,
    101, 98, 75, 105, 116, 47, 53, 51, 55, 46, 51, 54, 32, 40, 75, 72,
    84, 77, 76, 44, 32, 108, 105, 107, 101, 32, 71, 101, 99, 107, 111, 41,
    32, 67, 104, 114, 111, 109, 101, 47, 57, 49, 46, 48, 46, 52, 52, 55,
    50, 46, 49, 50, 52, 32, 83, 97, 102, 97, 114, 105, 47, 53, 51, 55,
    46, 51, 54 >>

\* property names: "userAgent", "webdriver", "navigator", "createElement"
UserAgentName == <<117, 115, 101, 114, 65, 103, 101, 110, 116>>
WebdriverName == <<119, 101, 98, 100, 114, 105, 118, 101, 114>>
NavigatorName == <<110, 97, 118, 105, 103, 97, 116, 111, 114>>
DocumentName == <<100, 111, 99, 117, 109, 101, 110, 116>>
CryptoName == <<99, 114, 121, 112, 116, 111>>
WebGLName == <<87, 101, 98, 71, 76, 82, 101, 110, 100, 101, 114, 105, 110, 103, 67, 111, 110, 116, 101, 120, 116>>
CreateElementName == <<99, 114, 101, 97, 116, 101, 69, 108, 101, 109, 101, 110, 116>>
PluginsName == <<112, 108, 117, 103, 105, 110, 115>>
LengthName == <<108, 101, 110, 103, 116, 104>>
BigInt64ArrayName == <<66, 105, 103, 73, 110, 116, 54, 52, 65, 114, 114, 97, 121>>

\* further values crossing the bridge: booleans, the host's functions, the
\* object or Error created by the n-th bridge call
Bool(b) == [t |-> "boolean", b |-> b]
Fn(name) == [t |-> "function", name |-> name]
Created(n) == [t |-> "object", r |-> 100 + n]
Err(n) == [t |-> "error", r |-> n]

\* the array literal navigator.plugins with its five plugin objects, and the
\* BigInt64Array of len elements constructed by the n-th bridge call
Plugins == [t |-> "array", r |-> 0, len |-> 5]
Plugin(i) == [t |-> "object", r |-> 50 + i]
TypedArray(n, len) == [t |-> "bigint64array", r |-> n, len |-> len]

\* the own properties of navigator and document: the object literals of
\* createBrowserEnvironment
InitialBrowserEnv ==
  LET keys == { <<Navigator, UserAgentName>>, <<Navigator, WebdriverName>>,
                <<Navigator, PluginsName>>, <<Document, CreateElementName>> }
  IN [k \in keys |->
        IF k[2] = UserAgentName THEN Str(UserAgent)
        ELSE IF k[2] = WebdriverName THEN Bool(FALSE)
        ELSE IF k[2] = PluginsName THEN Plugins
        ELSE Fn("createElement")]

\* a === b: NaN equals nothing, +0 equals -0, everything else by identity
StrictEquals(a, b) ==
  /\ a # NaN
  /\ b # NaN
  /\ \/ a = b
     \/ {a, b} = {Num(0), NegZero}

\* the ids of the entries of refs that are === obj, scanned in insertion
\* order (ids are inserted in increasing order)
Matches(refs, obj) == { id \in DOMAIN refs : StrictEquals(refs[id], obj) }

\* storeObject with this.nextRefId in place of this.nextRefId++
storeObject_NoIncrement(refs, next, obj) ==
  LET found == Matches(refs, obj)
      kept(id) == [id |-> id, refs |-> refs, next |-> next]
  IN IF obj = Navigator THEN kept(2)
     ELSE IF obj = Document THEN kept(3)
     ELSE IF obj = Crypto THEN kept(4)
     ELSE IF obj = WebGL THEN kept(5)
     ELSE IF obj = Undefined \/ obj = Null THEN kept(0)
     ELSE IF obj = GlobalThis THEN kept(1)
     ELSE IF found # {}
     THEN kept(CHOOSE id \in found : \A other \in found : id <= other)
     ELSE [ id |-> next,
            refs |-> [k \in DOMAIN refs \cup {next} |-> IF k = next THEN obj ELSE refs[k]],
            next |-> next ]

\* storeObject without the tests for the browser objects of lines 984-987
storeObject_NoBrowserIds(refs, next, obj) ==
  LET found == Matches(refs, obj)
      kept(id) == [id |-> id, refs |-> refs, next |-> next]
  IN IF obj = Undefined \/ obj = Null THEN kept(0)
     ELSE IF obj = GlobalThis THEN kept(1)
     ELSE IF found # {}
     THEN kept(CHOOSE id \in found : \A other \in found : id <= other)
     ELSE [ id |-> next,
            refs |-> [k \in DOMAIN refs \cup {next} |-> IF k = next THEN obj ELSE refs[k]],
            next |-> next + 1 ]

\* storeObject without the scan of the existing entries
storeObject_NoScan(refs, next, obj) ==
  LET kept(id) == [id |-> id, refs |-> refs, next |-> next]
  IN IF obj = Navigator THEN kept(2)
     ELSE IF obj = Document THEN kept(3)
     ELSE IF obj = Crypto THEN kept(4)
     ELSE IF obj = WebGL THEN kept(5)
     ELSE IF obj = Undefined \/ obj = Null THEN kept(0)
     ELSE IF obj = GlobalThis THEN kept(1)
     ELSE [ id |-> next,
            refs |-> [k \in DOMAIN refs \cup {next} |-> IF k = next THEN obj ELSE refs[k]],
            next |-> next + 1 ]

\* storeObject without the tests for the special values of lines 990-991
storeObject_NoSpecialValues(refs, next, obj) ==
  LET found == Matches(refs, obj)
      kept(id) == [id |-> id, refs |-> refs, next |-> next]
  IN IF obj = Navigator THEN kept(2)
     ELSE IF obj = Document THEN kept(3)
     ELSE IF obj = Crypto THEN kept(4)
     ELSE IF obj = WebGL THEN kept(5)
     ELSE IF found # {}
     THEN kept(CHOOSE id \in found : \A other \in found : id <= other)
     ELSE [ id |-> next,
            refs |-> [k \in DOMAIN refs \cup {next} |-> IF k = next THEN obj ELSE refs[k]],
            next |-> next + 1 ]

\* storeObject(obj) on table refs with counter next: the id returned and the
\* table and counter afterwards
storeObject(refs, next, obj) ==
  LET found == Matches(refs, obj)
      kept(id) == [id |-> id, refs |-> refs, next |-> next]
  IN IF obj = Navigator THEN kept(2)
     ELSE IF obj = Document THEN kept(3)
     ELSE IF obj = Crypto THEN kept(4)
     ELSE IF obj = WebGL THEN kept(5)
     ELSE IF obj = Undefined \/ obj = Null THEN kept(0)
     ELSE IF obj = GlobalThis THEN kept(1)
     ELSE IF found # {}
     THEN kept(CHOOSE id \in found : \A other \in found : id <= other)
     ELSE [ id |-> next,
            refs |-> [k \in DOMAIN refs \cup {next} |-> IF k = next THEN obj ELSE refs[k]],
            next |-> next + 1 ]

\* getObject raising an error for a key that is not in the table
getObject_Faulting(refs, id) ==
  IF id = 0 THEN Undefined
  ELSE IF id = 1 THEN GlobalThis
  ELSE IF id = 2 THEN Navigator
  ELSE IF id = 3 THEN Document
  ELSE IF id = 4 THEN Crypto
  ELSE IF id = 5 THEN WebGL
  ELSE IF id \in DOMAIN refs THEN refs[id]
  ELSE Err(0)

\* getObject(refId): Map.get of a missing key is undefined
getObject(refs, id) ==
  IF id = 0 THEN Undefined
  ELSE IF id = 1 THEN GlobalThis
  ELSE IF id = 2 THEN Navigator
  ELSE IF id = 3 THEN Document
  ELSE IF id = 4 THEN Crypto
  ELSE IF id = 5 THEN WebGL
  ELSE IF id \in DOMAIN refs THEN refs[id]
  ELSE Undefined

\* storeObject calls of a run of the table
MaxStores == 3

\* a bridge handler calls storeObject(obj)
StoreObject(obj) ==
  /\ Len(storeLog) < MaxStores
  /\ LET r == storeObject(objectRefs, nextRefId, obj)
     IN /\ objectRefs' = r.refs
        /\ nextRefId' = r.next
        /\ lastCall' = [op |-> "store", arg |-> obj, ret |-> r.id,
                        refs |-> objectRefs, next |-> nextRefId]
        /\ storeLog' = Append(storeLog, [arg |-> obj, ret |-> r.id,
                                         alloc |-> r.refs # objectRefs])
  /\ UNCHANGED <<walletVars, solverVars, bridgeVars>>

\* a bridge handler calls getObject(id)
GetObject(id) ==
  /\ lastCall' = [op |-> "get", arg |-> id, ret |-> getObject(objectRefs, id),
                  refs |-> objectRefs, next |-> nextRefId]
  /\ UNCHANGED <<objectRefs, nextRefId, storeLog, walletVars, solverVars, bridgeVars>>

\* unlimitedClaim has not been called
Idle == [pc |-> "idle", i |-> 0, now |-> 0, clock |-> 0, result |-> FALSE]
NoClaimRun == wallets = <<>> /\ claimLoop = Idle

Init ==
  /\ NoClaimRun
  /\ initCalled = FALSE
  /\ wasmInstance = "null"
  /\ wasmExports = {}
  /\ memory = <<>>
  /\ objectRefs = <<>>
  /\ nextRefId = 6
  /\ lastCall = [op |-> "none", arg |-> 0, ret |-> 0, refs |-> <<>>, next |-> 6]
  /\ storeLog = <<>>
  /\ vercelChallengeToken = Undefined
  /\ Solve = 0
  /\ sessions = <<>>
  /\ timers = {}
  /\ nextTimerId = 1
  /\ now = 0
  /\ guestRunning = FALSE
  /\ browserEnv = InitialBrowserEnv
  /\ bridgeCalls = 0

\* the variables of the solver other than the linear memory
loaderVars ==
  <<initCalled, wasmInstance, wasmExports, vercelChallengeToken, Solve, sessions,
    timers, nextTimerId, now, guestRunning>>

\* The state in which the handlers of the bridge run: initialize has
\* succeeded for a guest whose start function called ticksleep(0), the timer
\* has fired and the guest is inside go_scheduler, with mem as linear memory
InitLoaded(mem) ==
  /\ NoClaimRun
  /\ initCalled = TRUE
  /\ wasmInstance = "instance"
  /\ wasmExports = {"memory", "go_scheduler", "_start", "resume"}
  /\ memory = mem
  /\ objectRefs = <<>>
  /\ nextRefId = 6
  /\ storeLog = <<>>
  /\ vercelChallengeToken = Undefined
  /\ Solve = 0
  /\ sessions = <<>>
  /\ timers = {}
  /\ nextTimerId = 2
  /\ now = 0
  /\ guestRunning = TRUE
  /\ browserEnv = InitialBrowserEnv
  /\ bridgeCalls = 0

\* bytes of the buffer the marshaller is exercised on, and calls of a run
MarshalMemLen == 12
MaxMarshalCalls == 2

\* linear memory filled by the guest's data segment: "A", "B", "C", ...
DataSegment(n) == [j \in 1..n |-> 64 + j]

\* the pointers, values and string ranges the handlers pass to the marshaller
MarshalPtrs == {-1, 0, Len(memory) - 8, Len(memory) - 7, Len(memory) - 4,
                Len(memory) - 3, Len(memory)}
Values32 == {1, -1}
Values64 == { [high |-> 0, low |-> 5], [high |-> 1, low |-> 0] }
StringRanges == { <<0, 2>>, <<Len(memory) - 2, 2>>, <<Len(memory) - 2, 5>>,
                  <<Len(memory), 1>> }

\* the record of a marshaller call
MarshalCall(op, ptr, len, value, ret) ==
  [op |-> op, ptr |-> ptr, len |-> len, value |-> value, ret |-> ret, mem |-> memory]

InitMarshal ==
  /\ InitLoaded(DataSegment(MarshalMemLen))
  /\ lastCall = MarshalCall("none", 0, 0, 0, <<>>)

\* a handler calls readInt32FromMemory(memory, ptr)
ReadInt32(ptr) ==
  /\ bridgeCalls < MaxMarshalCalls
  /\ bridgeCalls' = bridgeCalls + 1
  /\ lastCall' = MarshalCall("readInt32", ptr, 4, 0, readInt32FromMemory(memory, ptr))
  /\ UNCHANGED <<memory, objectRefs, nextRefId, storeLog, browserEnv, walletVars, loaderVars>>

\* a handler calls writeInt32ToMemory(memory, ptr, value)
WriteInt32(ptr, value) ==
  /\ bridgeCalls < MaxMarshalCalls
  /\ bridgeCalls' = bridgeCalls + 1
  /\ memory' = writeInt32ToMemory(memory, ptr, value)
  /\ lastCall' = MarshalCall("writeInt32", ptr, 4, value, <<>>)
  /\ UNCHANGED <<objectRefs, nextRefId, storeLog, browserEnv, walletVars, loaderVars>>

\* a handler calls writeInt64ToMemory(memory, ptr, value)
WriteInt64(ptr, value) ==
  /\ bridgeCalls < MaxMarshalCalls
  /\ bridgeCalls' = bridgeCalls + 1
  /\ memory' = writeInt64ToMemory(memory, ptr, value)
  /\ lastCall' = MarshalCall("writeInt64", ptr, 8, value, <<>>)
  /\ UNCHANGED <<objectRefs, nextRefId, storeLog, browserEnv, walletVars, loaderVars>>

\* a handler calls readStringFromMemory(memory, ptr, len)
ReadString(ptr, len) ==
  /\ bridgeCalls < MaxMarshalCalls
  /\ bridgeCalls' = bridgeCalls + 1
  /\ lastCall' = MarshalCall("readString", ptr, len, 0, readStringFromMemory(memory, ptr, len))
  /\ UNCHANGED <<memory, objectRefs, nextRefId, storeLog, browserEnv, walletVars, loaderVars>>

(***************************************************************************)
(* Object bridge: the syscall/js handlers                                  *)
(***************************************************************************)

\* property names: "vercelChallengeToken", "Solve"
VercelChallengeTokenName ==
  <<118, 101, 114, 99, 101, 108, 67, 104, 97, 108, 108, 101, 110, 103, 101, 84, 111, 107,
    101, 110>>
SolveName == <<83, 111, 108, 118, 101>>

\* the texts "true", "false", "[object Object]"
TrueText == <<116, 114, 117, 101>>
FalseText == <<102, 97, 108, 115, 101>>
ObjectText == <<91, 111, 98, 106, 101, 99, 116, 32, 79, 98, 106, 101, 99, 116, 93>>

\* the arrow function globalThis.Solve registered by session k
SolveFn(k) == [t |-> "function", name |-> "Solve", sess |-> k]

\* a BigInt of value hi * 2^53 + lo: a 64-bit parameter of the guest
BigIntOf(hi, lo) == [t |-> "bigint", hi |-> hi, lo |-> lo]

\* typeof sp === 'bigint' && sp > BigInt(Number.MAX_SAFE_INTEGER), 2^53 - 1
IsOversized(sp) == sp.t = "bigint" /\ sp.hi >= 1

\* typeof sp === 'bigint' ? Number(sp % BigInt(Number.MAX_SAFE_INTEGER)) : Number(sp)
\* (hi * 2^53 + lo is congruent to hi + lo modulo 2^53 - 1)
NumberOfSp(sp) == IF sp.t = "bigint" THEN sp.hi + sp.lo ELSE sp.n

\* if (typeof value === 'bigint') value = Number(value)
Narrow(v) == IF v.t = "bigint" THEN Num(v.lo) ELSE v

\* typeof v === 'function'
IsFunction(v) == v.t = "function" \/ v = WebGL

\* a value that is not an object: Reflect.get, Reflect.set and the in
\* operator throw a TypeError for it
IsPrimitive(v) ==
  v.t \in {"undefined", "null", "string", "number", "negativeZero", "NaN", "boolean", "bigint"}

\* String(v).  The text of a function is its source and the text of an Error
\* carries its message; the guest of this model asks for neither, they stand
\* as "[object Object]" like the plain objects.
StringOf(v) ==
  IF v.t \in {"string", "undefined", "null"} THEN ToText(v)
  ELSE IF v.t = "boolean" THEN (IF v.b THEN TrueText ELSE FalseText)
  ELSE IF v.t = "number" /\ v.n \in 0..9 THEN <<48 + v.n>>
  ELSE IF v.t = "negativeZero" THEN <<48>>
  ELSE IF v.t = "NaN" THEN <<78, 97, 78>>
  ELSE IF v.t = "bigint64array" /\ v.len = 0 THEN <<>>
  ELSE IF v.t = "bigint64array" /\ v.len = 1 THEN <<48>>
  ELSE ObjectText

\* the UTF-8 bytes of the character c of the Basic Multilingual Plane
Utf8(c) ==
  IF c < 128 THEN <<c>>
  ELSE IF c < 2048 THEN <<192 + (c \div 64), 128 + (c % 64)>>
  ELSE <<224 + (c \div 4096), 128 + ((c \div 64) % 64), 128 + (c % 64)>>

\* new TextEncoder().encode(str): the UTF-8 bytes of the characters, in order
RECURSIVE Encode(_)
Encode(str) ==
  IF str = <<>> THEN <<>>
  ELSE IF Len(str) = 1 THEN Utf8(str[1])
  ELSE LET half == Len(str) \div 2
       IN Encode(SubSeq(str, 1, half)) \o Encode(SubSeq(str, half + 1, Len(str)))

\* the state a handler works on: linear memory, the reference table, the
\* browser environment, the namespace and the sessions; threw tells that an
\* exception left the handler, solved that it invoked globalThis.Solve, and
\* fresh numbers the objects the call creates
Bridge ==
  [ memory |-> memory, refs |-> objectRefs, next |-> nextRefId, env |-> browserEnv,
    sessions |-> sessions, timers |-> timers, Solve |-> Solve,
    exports |-> wasmExports, token |-> vercelChallengeToken,
    threw |-> FALSE, solved |-> FALSE, fresh |-> bridgeCalls + 1 ]

\* F(x) for x the value of v: v is evaluated once
With(v, F(_)) == CHOOSE r \in { F(x) : x \in {v} } : TRUE

\* this.storeObject(obj) within a handler
Store(H, obj) ==
  With(<<H, obj>>, LAMBDA p :
    With(storeObject(p[1].refs, p[1].next, p[2]), LAMBDA r :
      [id |-> r.id, H |-> [p[1] EXCEPT !.refs = r.refs, !.next = r.next]]))

\* an exception leaves the handler
Raise(H) == [H EXCEPT !.threw = TRUE]

\* memory[a] = .. & 0xFF for the four bytes of id, each store as SetByte
SetBytes32(mem, a, id) ==
  LET b == Bytes32(id)
  IN SetByte(SetByte(SetByte(SetByte(mem, a, b[1]), a + 1, b[2]), a + 2, b[3]), a + 3, b[4])

\* the array index a property key denotes, -1 when it is not a one-digit index
IndexOf(key) == IF Len(key) = 1 /\ key[1] \in 48..57 THEN key[1] - 48 ELSE -1

\* ToIndex(v) of the length argument of a typed array constructor, for the
\* primitives of the model below 10: a text that is no number stands for NaN
\* and gives 0
ToIndex(v) ==
  IF v.t = "string" THEN (IF IndexOf(v.s) >= 0 THEN IndexOf(v.s) ELSE 0)
  ELSE IF v.t = "number" /\ v.n \in 0..9 THEN v.n
  ELSE 0

\* Reflect.get(target, key) for a target that is not null or undefined; the
\* elements of a new BigInt64Array are 0n
ReflectGet(H, target, key) ==
  IF IsPrimitive(target) THEN [threw |-> TRUE, value |-> Err(H.fresh)]
  ELSE IF target = GlobalThis /\ key = VercelChallengeTokenName
  THEN [threw |-> FALSE, value |-> H.token]
  ELSE IF target = GlobalThis /\ key = SolveName
  THEN [threw |-> FALSE, value |-> IF H.Solve = 0 THEN Undefined ELSE SolveFn(H.Solve)]
  ELSE IF <<target, key>> \in DOMAIN H.env
  THEN [threw |-> FALSE, value |-> H.env[<<target, key>>]]
  ELSE IF target = GlobalThis /\ key = BigInt64ArrayName
  THEN [threw |-> FALSE, value |-> Fn("BigInt64Array")]
  ELSE IF target.t \in {"array", "bigint64array"} /\ key = LengthName
  THEN [threw |-> FALSE, value |-> Num(target.len)]
  ELSE IF target.t \in {"array", "bigint64array"} /\ IndexOf(key) \in 0..(target.len - 1)
  THEN [threw |-> FALSE,
        value |-> IF target.t = "array" THEN Plugin(IndexOf(key)) ELSE BigIntOf(0, 0)]
  ELSE [threw |-> FALSE, value |-> Undefined]

\* Reflect.set(obj, key, value) for an obj that is not null or undefined; the
\* host objects are ordinary extensible objects with writable properties
ReflectSet(H, obj, key, value) ==
  IF IsPrimitive(obj) THEN H
  ELSE IF obj = GlobalThis /\ key = VercelChallengeTokenName
  THEN [H EXCEPT !.token = value]
  ELSE IF obj = GlobalThis /\ key = SolveName
  THEN [H EXCEPT !.Solve = IF value.t = "function" /\ value.name = "Solve"
                           THEN value.sess ELSE 0]
  ELSE [H EXCEPT !.env = [k \in DOMAIN @ \cup {<<obj, key>>} |->
                            IF k = <<obj, key>> THEN value ELSE @[k]]]

\* the arguments of a call: getObject of the args_len ids stored from args_ptr
Args(H, args_ptr, args_len) ==
  [i \in 1..args_len |->
     getObject(H.refs, NumberOf(readInt32FromMemory(H.memory, args_ptr + (i - 1) * 8)))]

\* fn(...args) for a function of the host: globalThis.Solve, the arrow
\* function document.createElement (tagName.toLowerCase() throws unless
\* tagName is a string) and the empty function WebGLRenderingContext
Apply(H, fn, args) ==
  LET arg == IF args = <<>> THEN Undefined ELSE args[1]
  IN IF fn = WebGL
     THEN [H |-> H, threw |-> FALSE, value |-> Undefined]
     ELSE IF fn.name = "Solve"
     THEN [H |-> [SolveClosure(fn.sess, arg, "guest", now, H) EXCEPT !.solved = TRUE],
           threw |-> FALSE,
           value |-> IF IsNullish(arg) THEN Str(<<>>) ELSE Str(StringOf(arg))]
     ELSE IF fn.name = "BigInt64Array"
     THEN [H |-> H, threw |-> TRUE, value |-> Err(H.fresh)]
     ELSE IF arg.t = "string"
     THEN [H |-> H, threw |-> FALSE, value |-> Created(H.fresh)]
     ELSE [H |-> H, threw |-> TRUE, value |-> Err(H.fresh)]

\* Reflect.construct(ctor, args): an arrow function is not a constructor;
\* new BigInt64Array(length) takes ToIndex of a primitive argument that is
\* not a BigInt, and an object without elements gives an empty array
Construct(H, ctor, args) ==
  LET arg == IF args = <<>> THEN Undefined ELSE args[1]
  IN IF ctor = WebGL
     THEN [H |-> H, threw |-> FALSE, value |-> Created(H.fresh)]
     ELSE IF ctor.name = "BigInt64Array" /\ arg.t # "bigint"
     THEN [H |-> H, threw |-> FALSE,
           value |-> TypedArray(H.fresh, IF IsPrimitive(arg) THEN ToIndex(arg) ELSE 0)]
     ELSE [H |-> H, threw |-> TRUE, value |-> Err(H.fresh)]

\* syscall/js.stringVal: with a BigInt sp, sp + 8 throws a TypeError in the
\* try block and again in the catch block
stringVal(H, sp) ==
  IF sp.t = "bigint" THEN Raise(H)
  ELSE LET str_ptr == NumberOf(readInt32FromMemory(H.memory, sp.n + 16))
           str_len == NumberOf(readInt32FromMemory(H.memory, sp.n + 24))
       IN With(Store(H, Str(readStringFromMemory(H.memory, str_ptr, str_len))), LAMBDA st :
            [st.H EXCEPT !.memory = writeValueToMemory(@, sp.n + 8, st.id)])

\* syscall/js.valueSet writing to globalThis when the target is absent
valueSet_AbsentAsGlobal(H, sp) ==
  IF sp.t = "bigint" THEN H
  ELSE LET obj_id == NumberOf(readInt32FromMemory(H.memory, sp.n + 8))
           prop_ptr == NumberOf(readInt32FromMemory(H.memory, sp.n + 16))
           prop_len == NumberOf(readInt32FromMemory(H.memory, sp.n + 24))
           value_id == NumberOf(readInt32FromMemory(H.memory, sp.n + 32))
           prop == readStringFromMemory(H.memory, prop_ptr, prop_len)
           obj == getObject(H.refs, obj_id)
           value == getObject(H.refs, value_id)
       IN ReflectSet(H, IF IsNullish(obj) THEN GlobalThis ELSE obj, prop, value)

\* syscall/js.valueSet: its catch block only logs
valueSet(H, sp) ==
  IF sp.t = "bigint" THEN H
  ELSE LET obj_id == NumberOf(readInt32FromMemory(H.memory, sp.n + 8))
           prop_ptr == NumberOf(readInt32FromMemory(H.memory, sp.n + 16))
           prop_len == NumberOf(readInt32FromMemory(H.memory, sp.n + 24))
           value_id == NumberOf(readInt32FromMemory(H.memory, sp.n + 32))
           prop == readStringFromMemory(H.memory, prop_ptr, prop_len)
           obj == getObject(H.refs, obj_id)
           value == getObject(H.refs, value_id)
       IN IF IsNullish(obj) THEN H ELSE ReflectSet(H, obj, prop, value)

\* the inner try and catch of valueNew (lines 638-651)
ConstructInto(H, ctor, args, ret_ptr, exc_ptr) ==
  With(IF IsFunction(ctor) THEN Construct(H, ctor, args)
       ELSE [H |-> H, threw |-> TRUE, value |-> Err(H.fresh)], LAMBDA r :
    With(Store(r.H, r.value), LAMBDA st :
      [st.H EXCEPT !.memory =
         writeValueToMemory(SetByte(@, exc_ptr, IF r.threw THEN 1 ELSE 0), ret_ptr, st.id)]))

\* syscall/js.valueNew: with a BigInt sp, sp + 8 throws in the try block and
\* sp + 32 in the catch block
valueNew(H, sp) ==
  IF sp.t = "bigint" THEN Raise(H)
  ELSE LET ctor_id == NumberOf(readInt32FromMemory(H.memory, sp.n + 8))
           args_ptr == NumberOf(readInt32FromMemory(H.memory, sp.n + 16))
           args_len == NumberOf(readInt32FromMemory(H.memory, sp.n + 20))
       IN With(<<getObject(H.refs, ctor_id), Args(H, args_ptr, args_len)>>, LAMBDA c :
            ConstructInto(H, c[1], c[2], sp.n + 24, sp.n + 32))

\* obj.length of an object that has the property: the parameter count of a
\* function, the number of elements of an array; the other objects of the
\* environment have no length
LengthOf(obj) ==
  IF obj = WebGL THEN 0
  ELSE IF obj.t = "function" THEN (IF obj.name = "BigInt64Array" THEN 3 ELSE 1)
  ELSE IF obj.t \in {"array", "bigint64array"} THEN obj.len
  ELSE 0

\* syscall/js.finalizeRef releasing the entry named in the frame, as the
\* Go runtime's own host does
finalizeRef_Delete(H, sp) ==
  [H EXCEPT !.refs =
     [k \in DOMAIN @ \ {NumberOf(readInt32FromMemory(H.memory, NumberOfSp(sp) + 8))} |-> @[k]]]

\* syscall/js.finalizeRef: () => { }, a function without parameters and
\* without statements
finalizeRef(H, sp) == H

\* syscall/js.valueLength: 'length' in obj throws for a primitive, the catch
\* block writes 0n; with a BigInt sp, sp + 8 and then sp + 16 throw
valueLength(H, sp) ==
  IF sp.t = "bigint" THEN Raise(H)
  ELSE LET id == NumberOf(readInt32FromMemory(H.memory, sp.n + 8))
           obj == getObject(H.refs, id)
           len == IF IsPrimitive(obj) THEN 0 ELSE LengthOf(obj)
       IN [H EXCEPT !.memory = writeInt64ToMemory(@, sp.n + 16, [high |-> 0, low |-> len])]

\* valuePrepareString reporting str.length, the number of UTF-16 code units,
\* in place of the number of UTF-8 bytes
valuePrepareString_CharLength(H, sp) ==
  IF sp.t = "bigint" THEN Raise(H)
  ELSE LET val_id == NumberOf(readInt32FromMemory(H.memory, sp.n + 8))
       IN With(StringOf(getObject(H.refs, val_id)), LAMBDA str :
            With(Store(H, Str(str)), LAMBDA st :
              [st.H EXCEPT !.memory =
                 writeValueToMemory(writeInt32ToMemory(@, sp.n, Len(str)),
                                    sp.n + 8, st.id)]))

\* syscall/js.valuePrepareString: with a BigInt sp, sp + 8 throws in the try
\* block and again in the catch block
valuePrepareString(H, sp) ==
  IF sp.t = "bigint" THEN Raise(H)
  ELSE LET val_id == NumberOf(readInt32FromMemory(H.memory, sp.n + 8))
       IN With(StringOf(getObject(H.refs, val_id)), LAMBDA str :
            With(Store(H, Str(str)), LAMBDA st :
              [st.H EXCEPT !.memory =
                 writeValueToMemory(writeInt32ToMemory(@, sp.n, Len(Encode(str))),
                                    sp.n + 8, st.id)]))

\* valueLoadString with a store per byte in place of memory.set: the bytes
\* that fall inside the buffer are written, the others dropped
valueLoadString_Clipped(H, sp) ==
  IF sp.t = "bigint" THEN H
  ELSE LET str_id == NumberOf(readInt32FromMemory(H.memory, sp.n + 8))
           ptr == NumberOf(readInt32FromMemory(H.memory, sp.n + 16))
           len == NumberOf(readInt32FromMemory(H.memory, sp.n + 24))
       IN With(Encode(StringOf(getObject(H.refs, str_id))), LAMBDA bytes :
            LET copyLen == IF Len(bytes) < len THEN Len(bytes) ELSE len
            IN [H EXCEPT !.memory = WriteBytes(@, ptr, SubSeq(bytes, 1, copyLen))])

\* syscall/js.valueLoadString: memory.set throws a RangeError when the bytes
\* do not fit; the catch block only logs
valueLoadString(H, sp) ==
  IF sp.t = "bigint" THEN H
  ELSE LET str_id == NumberOf(readInt32FromMemory(H.memory, sp.n + 8))
           ptr == NumberOf(readInt32FromMemory(H.memory, sp.n + 16))
           len == NumberOf(readInt32FromMemory(H.memory, sp.n + 24))
       IN With(Encode(StringOf(getObject(H.refs, str_id))), LAMBDA bytes :
            LET copyLen == IF Len(bytes) < len THEN Len(bytes) ELSE len
            IN IF ptr + copyLen > Len(H.memory) THEN H
               ELSE [H EXCEPT !.memory = WriteBytes(@, ptr, SubSeq(bytes, 1, copyLen))])

\* syscall/js.valueIndex: a TypeError of Reflect.get is answered with id 0;
\* with a BigInt sp, sp + 8 throws in the try block and sp + 24 in the catch
valueIndex(H, sp) ==
  IF sp.t = "bigint" THEN Raise(H)
  ELSE LET obj_id == NumberOf(readInt32FromMemory(H.memory, sp.n + 8))
           index_id == NumberOf(readInt32FromMemory(H.memory, sp.n + 16))
       IN With(<<getObject(H.refs, obj_id), getObject(H.refs, index_id)>>, LAMBDA c :
            With(IF IsNullish(c[1]) THEN [threw |-> FALSE, value |-> Undefined]
                 ELSE ReflectGet(H, c[1], StringOf(c[2])), LAMBDA got :
              With(Store(H, IF got.threw THEN Undefined ELSE got.value), LAMBDA st :
                [st.H EXCEPT !.memory = writeValueToMemory(@, sp.n + 24, st.id)])))

\* the object valueGet reads prop from: for receiver id 0 one of the four
\* browser objects named by prop, or globalThis
Target(H, v_addr, prop) ==
  IF v_addr = 0
  THEN IF prop = NavigatorName THEN Navigator
       ELSE IF prop = DocumentName THEN Document
       ELSE IF prop = CryptoName THEN Crypto
       ELSE IF prop = WebGLName THEN WebGL
       ELSE GlobalThis
  ELSE getObject(H.refs, v_addr)

\* syscall/js.valueGet
valueGet(H, sp) ==
  LET L == Len(H.memory)
      spNum == NumberOfSp(sp)
      v_addr == NumberOf(readInt32FromMemory(H.memory, spNum + 8))
      p_ptr == NumberOf(readInt32FromMemory(H.memory, spNum + 16))
      p_len == NumberOf(readInt32FromMemory(H.memory, spNum + 24))
      ret_ptr == spNum + 32
  IN IF IsOversized(sp)
     THEN With(Store(H, H.token), LAMBDA st :
            [st.H EXCEPT !.memory = SetBytes32(@, L - 128, st.id)])
     ELSE IF spNum < 0 \/ spNum >= L - 40 THEN H
     ELSE With(IF p_ptr >= 0 /\ p_ptr + p_len <= L
               THEN readStringFromMemory(H.memory, p_ptr, p_len) ELSE <<>>, LAMBDA prop :
          With(Target(H, v_addr, prop), LAMBDA target :
          With(IF IsNullish(target) THEN [threw |-> FALSE, value |-> Undefined]
               ELSE ReflectGet(H, target, prop), LAMBDA got :
            IF got.threw
            THEN IF spNum + 35 < L THEN [H EXCEPT !.memory = SetBytes32(@, spNum + 32, 0)]
                 ELSE H
            ELSE With(Store(H, Narrow(got.value)), LAMBDA st :
                   IF ret_ptr < 0 \/ ret_ptr + 3 >= L THEN st.H
                   ELSE [st.H EXCEPT !.memory = SetBytes32(@, ret_ptr, st.id)]))))

\* the inner try and catch with a catch block that clears the exception flag
CallInto_FlagCleared(H, fn, args, ret_ptr, exc_ptr) ==
  With(IF IsFunction(fn) THEN Apply(H, fn, args)
       ELSE [H |-> H, threw |-> TRUE, value |-> Err(H.fresh)], LAMBDA r :
    With(Store([r.H EXCEPT !.memory =
                  IF exc_ptr >= 0 /\ exc_ptr < Len(@) THEN SetByte(@, exc_ptr, 0) ELSE @],
               IF r.threw THEN r.value ELSE Narrow(r.value)), LAMBDA st :
      IF ret_ptr >= 0 /\ ret_ptr + 3 < Len(st.H.memory)
      THEN [st.H EXCEPT !.memory = SetBytes32(@, ret_ptr, st.id)]
      ELSE st.H))

\* the inner try and catch of valueCall and valueInvoke (lines 519-585 and
\* 823-889): the call, the exception flag, the stored result or error
CallInto(H, fn, args, ret_ptr, exc_ptr) ==
  With(IF IsFunction(fn) THEN Apply(H, fn, args)
       ELSE [H |-> H, threw |-> TRUE, value |-> Err(H.fresh)], LAMBDA r :
    With(Store([r.H EXCEPT !.memory =
                  IF exc_ptr >= 0 /\ exc_ptr < Len(@)
                  THEN SetByte(@, exc_ptr, IF r.threw THEN 1 ELSE 0) ELSE @],
               IF r.threw THEN r.value ELSE Narrow(r.value)), LAMBDA st :
      IF ret_ptr >= 0 /\ ret_ptr + 3 < Len(st.H.memory)
      THEN [st.H EXCEPT !.memory = SetBytes32(@, ret_ptr, st.id)]
      ELSE st.H))

\* the arguments collected by valueCall and valueInvoke
CheckedArgs(H, args_ptr, args_len) ==
  IF args_ptr >= 0 /\ args_len >= 0 /\ args_ptr + args_len * 8 <= Len(H.memory)
  THEN Args(H, args_ptr, args_len) ELSE <<>>

\* the branch of valueCall and valueInvoke for an oversized sp: the callback
\* is invoked with generateSolution of the published token
OversizedCall(H) ==
  IF "memory" \in H.exports /\ H.Solve # 0
  THEN [Oversized(H) EXCEPT !.solved = TRUE] ELSE Oversized(H)

\* syscall/js.valueCall
valueCall(H, sp) ==
  LET spNum == NumberOfSp(sp)
      fn_id == NumberOf(readInt32FromMemory(H.memory, spNum + 8))
      args_ptr == NumberOf(readInt32FromMemory(H.memory, spNum + 24))
      args_len == NumberOf(readInt32FromMemory(H.memory, spNum + 28))
  IN IF IsOversized(sp) THEN OversizedCall(H)
     ELSE IF spNum < 0 \/ spNum >= Len(H.memory) - 48 THEN H
     ELSE With(<<getObject(H.refs, fn_id), CheckedArgs(H, args_ptr, args_len)>>, LAMBDA c :
            CallInto(H, c[1], c[2], spNum + 32, spNum + 40))

\* syscall/js.valueInvoke
valueInvoke(H, sp) ==
  LET spNum == NumberOfSp(sp)
      fn_id == NumberOf(readInt32FromMemory(H.memory, spNum + 8))
      args_ptr == NumberOf(readInt32FromMemory(H.memory, spNum + 16))
      args_len == NumberOf(readInt32FromMemory(H.memory, spNum + 20))
  IN IF IsOversized(sp) THEN OversizedCall(H)
     ELSE IF spNum < 0 \/ spNum >= Len(H.memory) - 40 THEN H
     ELSE With(<<getObject(H.refs, fn_id), CheckedArgs(H, args_ptr, args_len)>>, LAMBDA c :
            CallInto(H, c[1], c[2], spNum + 24, spNum + 32))

\* bytes of the guest's linear memory in the runs of the bridge, and the
\* handler calls of a run
BridgeMemLen == 136
MaxBridgeCalls == 2

\* where the guest of the model keeps a string, the ids of the arguments of
\* a call and the buffer of load-string
NameAddr == 48
ArgsAddr == 72
DestAddr == 80

\* the bytes of a frame: the guest's stack slots from sp to sp + 47
FrameBytes == 48

RECURSIVE WriteSlots(_, _, _)
\* the guest stores value at a + offset for each <<offset, value>> of slots
WriteSlots(mem, a, slots) ==
  IF slots = <<>> THEN mem
  ELSE WriteSlots(WriteBytes(mem, a + slots[1][1], Bytes32(slots[1][2])), a, Tail(slots))

\* the argument ids ids stored as 8-byte slots from ArgsAddr
ArgSlots(ids) == [i \in DOMAIN ids |-> <<(i - 1) * 8, ids[i]>>]

\* The guest prepares a call: it stores the string name and the argument ids
\* in its data area and the slots of the frame at sp; the other bytes of the
\* frame, the output slots among them, hold what the stack held before (the
\* byte 2 throughout).  A frame at an sp beyond the safe integer range has
\* no place in the buffer, and of a frame that crosses the end of the buffer
\* only the bytes inside exist.
GuestFrame(mem, sp, slots, name, ids) ==
  LET data == WriteSlots(WriteBytes(mem, NameAddr, name), ArgsAddr, ArgSlots(ids))
  IN IF IsOversized(sp) THEN data
     ELSE WriteSlots(WriteBytes(data, NumberOfSp(sp), Repeat(2, FrameBytes)),
                     NumberOfSp(sp), slots)

\* the record of a handler call: the state before it, after the guest's stores
BridgeCall(op, sp, H, R) ==
  [ op |-> op, sp |-> sp, mem |-> H.memory, refs |-> H.refs, next |-> H.next,
    env |-> H.env, threw |-> R.threw, solved |-> R.solved ]

\* the state a handler finds after the guest has prepared its call
Prepared(sp, slots, name, ids) ==
  [Bridge EXCEPT !.memory = GuestFrame(memory, sp, slots, name, ids)]

\* syscall/js.valueCall whose target, inside Reflect.apply (line 523), runs
\* the guest again before it returns: the guest prepares at inner the frame
\* of valueGet(v_addr, name) and calls it.  The outer handler has read its
\* frame before the call and writes its outputs after it.
NestedCall(H, sp, inner, v_addr, name) ==
  LET spNum == NumberOfSp(sp)
      fn_id == NumberOf(readInt32FromMemory(H.memory, spNum + 8))
      args_ptr == NumberOf(readInt32FromMemory(H.memory, spNum + 24))
      args_len == NumberOf(readInt32FromMemory(H.memory, spNum + 28))
      slots == << <<8, v_addr>>, <<16, NameAddr>>, <<24, Len(name)>> >>
  IN With(<<getObject(H.refs, fn_id), CheckedArgs(H, args_ptr, args_len)>>, LAMBDA c :
       With(valueGet([H EXCEPT !.memory = GuestFrame(@, inner, slots, name, <<>>)], inner),
            LAMBDA nested : CallInto(nested, c[1], c[2], spNum + 32, spNum + 40)))

\* The guest prepares the frame and calls the import op with sp; handler
\* maps the state it finds to the state it leaves (if (!this.wasmInstance)
\* return; is the first statement of every handler)
Handle(op, sp, slots, name, ids, handler(_, _)) ==
  /\ guestRunning
  /\ bridgeCalls < MaxBridgeCalls
  /\ \E H \in {Prepared(sp, slots, name, ids)} :
    \E R \in {IF wasmInstance = "null" THEN H ELSE handler(H, sp)} :
      /\ bridgeCalls' = bridgeCalls + 1
      /\ memory' = R.memory
      /\ objectRefs' = R.refs
      /\ nextRefId' = R.next
      /\ browserEnv' = R.env
      /\ sessions' = R.sessions
      /\ timers' = R.timers
      /\ Solve' = R.Solve
      /\ vercelChallengeToken' = R.token
      /\ lastCall' = BridgeCall(op, sp, H, R)
      /\ UNCHANGED <<storeLog, walletVars, initCalled, wasmInstance, wasmExports, nextTimerId, now,
                     guestRunning>>

StringVal(sp, name) ==
  Handle("stringVal", sp, << <<16, NameAddr>>, <<24, Len(name)>> >>, name, <<>>, stringVal)

ValueGet(sp, v_addr, name) ==
  Handle("valueGet", sp, << <<8, v_addr>>, <<16, NameAddr>>, <<24, Len(name)>> >>, name,
         <<>>, valueGet)

ValueSet(sp, obj_id, name, value_id) ==
  Handle("valueSet", sp,
         << <<8, obj_id>>, <<16, NameAddr>>, <<24, Len(name)>>, <<32, value_id>> >>, name,
         <<>>, valueSet)

ValueCall(sp, fn_id, this_id, ids) ==
  Handle("valueCall", sp,
         << <<8, fn_id>>, <<16, this_id>>, <<24, ArgsAddr>>, <<28, Len(ids)>> >>, <<>>,
         ids, valueCall)

ValueInvoke(sp, fn_id, ids) ==
  Handle("valueInvoke", sp, << <<8, fn_id>>, <<16, ArgsAddr>>, <<20, Len(ids)>> >>, <<>>,
         ids, valueInvoke)

ValueNew(sp, ctor_id, ids) ==
  Handle("valueNew", sp, << <<8, ctor_id>>, <<16, ArgsAddr>>, <<20, Len(ids)>> >>, <<>>,
         ids, valueNew)

ValueCallNested(sp, fn_id, inner, v_addr, name) ==
  Handle("valueCallNested", sp,
         << <<8, fn_id>>, <<16, 0>>, <<24, ArgsAddr>>, <<28, 0>> >>, <<>>, <<>>,
         LAMBDA H, s : NestedCall(H, s, inner, v_addr, name))

FinalizeRef(sp, id) ==
  Handle("finalizeRef", sp, << <<8, id>> >>, <<>>, <<>>, finalizeRef)

ValueLength(sp, id) ==
  Handle("valueLength", sp, << <<8, id>> >>, <<>>, <<>>, valueLength)

ValuePrepareString(sp, val_id) ==
  Handle("valuePrepareString", sp, << <<8, val_id>> >>, <<>>, <<>>, valuePrepareString)

ValueLoadString(sp, str_id, ptr, len) ==
  Handle("valueLoadString", sp, << <<8, str_id>>, <<16, ptr>>, <<24, len>> >>, <<>>,
         <<>>, valueLoadString)

ValueIndex(sp, obj_id, index_id) ==
  Handle("valueIndex", sp, << <<8, obj_id>>, <<16, index_id>> >>, <<>>, <<>>, valueIndex)

\* bytes in guest memory that are not UTF-8: the one byte 0xFF, which
\* TextDecoder turns into the character U+FFFD (three bytes in UTF-8)
InvalidByte == <<255>>

\* the calls of the model's guest: every frame of frames at sp 0, and the
\* frame first at each stack pointer of sps
Calls(first, frames, sps) ==
  { <<Num(0), f>> : f \in frames \cup {first} } \cup { <<sp, first>> : sp \in sps }

\* an id that storeObject has not assigned
UnknownId == 99

\* stack pointers: the first byte after the buffer, a BigInt inside the
\* buffer, a BigInt above Number.MAX_SAFE_INTEGER whose remainder modulo
\* Number.MAX_SAFE_INTEGER lies after the buffer
Beyond == Num(Len(memory))
SmallBigInt == BigIntOf(0, 0)
HugeBigInt == BigIntOf(1, BridgeMemLen)

\* the solver when the first solveChallenge(token) is called: initialize has
\* succeeded and the timer of the guest's ticksleep(0) is pending
FirstSession(token) ==
  [ sessions |-> <<NewSession(token, TRUE, FALSE)>>,
    timers |-> SleepTimers(<<0>>, 1, 0), memory |-> Zeros(BridgeMemLen), Solve |-> 0,
    exports |-> {"memory", "go_scheduler", "_start", "resume"}, token |-> Undefined,
    threw |-> FALSE ]

\* the state the handlers find once that session, S with s as its record,
\* has ended and the timer has entered the guest
AfterSession(S, s) ==
  [ memory |-> S.memory, refs |-> <<>>, next |-> 6, env |-> InitialBrowserEnv,
    sessions |-> <<s>>, timers |-> {}, Solve |-> S.Solve, exports |-> S.exports,
    token |-> S.token, threw |-> FALSE, solved |-> FALSE, fresh |-> 0 ]

\* the state the handlers find on an initialized solver before any session
BeforeSession ==
  [ memory |-> Zeros(BridgeMemLen), refs |-> <<>>, next |-> 6, env |-> InitialBrowserEnv,
    sessions |-> <<>>, timers |-> {}, Solve |-> 0,
    exports |-> {"memory", "go_scheduler", "_start", "resume"}, token |-> Undefined,
    threw |-> FALSE, solved |-> FALSE, fresh |-> 0 ]

\* the guest's calls valueGet(v_addr, name), stringVal(name) and
\* valueNew(ctor_id, ids) at stack pointer 0 on the state H
GuestGet(H, v_addr, name) ==
  valueGet([H EXCEPT !.memory =
              GuestFrame(@, Num(0), << <<8, v_addr>>, <<16, NameAddr>>, <<24, Len(name)>> >>,
                         name, <<>>)], Num(0))
GuestString(H, name) ==
  stringVal([H EXCEPT !.memory =
               GuestFrame(@, Num(0), << <<16, NameAddr>>, <<24, Len(name)>> >>, name, <<>>)],
            Num(0))
GuestNew(H, ctor_id, ids) ==
  valueNew([H EXCEPT !.memory =
              GuestFrame(@, Num(0), << <<8, ctor_id>>, <<16, ArgsAddr>>, <<20, Len(ids)>> >>,
                         <<>>, ids)], Num(0))

\* The guest is inside go_scheduler on an initialized solver: before any
\* session and any call of the bridge; after a session and the two calls
\* that fetch document.createElement and make the string "createElement"
\* (ids 6 and 7); or before any session, after the four calls that fetch
\* globalThis.BigInt64Array, make the string "1", construct
\* new BigInt64Array("1") and make the string "0" (ids 6 to 9)
InitBridge ==
  \/ /\ InitLoaded(Zeros(BridgeMemLen))
     /\ lastCall = BridgeCall("none", Num(0), Bridge, Bridge)
  \/ \E G1 \in { GuestGet(BeforeSession, 0, BigInt64ArrayName) } :
     \E G2 \in { GuestString(G1, <<49>>) } :
     \E G3 \in { GuestNew(G2, 6, <<7>>) } :
     \E W \in { GuestString(G3, <<48>>) } :
       /\ NoClaimRun
       /\ initCalled = TRUE
       /\ wasmInstance = "instance"
       /\ wasmExports = W.exports
       /\ memory = W.memory
       /\ objectRefs = W.refs
       /\ nextRefId = W.next
       /\ storeLog = <<>>
       /\ vercelChallengeToken = W.token
       /\ Solve = W.Solve
       /\ sessions = W.sessions
       /\ timers = W.timers
       /\ nextTimerId = 2
       /\ now = 0
       /\ guestRunning = TRUE
       /\ browserEnv = W.env
       /\ bridgeCalls = 0
       /\ lastCall = BridgeCall("none", Num(0), W, W)
  \/ \E token \in Tokens \ {<<>>} :
     \E S \in { solveChallenge(1, token, 0, 2, 0, FirstSession(token)) } :
     \E s1 \in { Continue(S.sessions[1], "instance", S.exports, S.memory) } :
     \E s2 \in { Continue(s1, "instance", S.exports, S.memory) } :
     \E m1 \in { GuestFrame(S.memory, Num(0),
                            << <<8, 3>>, <<16, NameAddr>>, <<24, Len(CreateElementName)>> >>,
                            CreateElementName, <<>>) } :
     \E H1 \in { valueGet([AfterSession(S, s2) EXCEPT !.memory = m1], Num(0)) } :
     \E m2 \in { GuestFrame(H1.memory, Num(0),
                            << <<16, NameAddr>>, <<24, Len(CreateElementName)>> >>,
                            CreateElementName, <<>>) } :
     \E W \in { stringVal([H1 EXCEPT !.memory = m2], Num(0)) } :
       /\ NoClaimRun
       /\ initCalled = TRUE
       /\ wasmInstance = "instance"
       /\ wasmExports = W.exports
       /\ memory = W.memory
       /\ objectRefs = W.refs
       /\ nextRefId = W.next
       /\ storeLog = <<>>
       /\ vercelChallengeToken = W.token
       /\ Solve = W.Solve
       /\ sessions = W.sessions
       /\ timers = W.timers
       /\ nextTimerId = 3
       /\ now = 0
       /\ guestRunning = TRUE
       /\ browserEnv = W.env
       /\ bridgeCalls = 0
       /\ lastCall = BridgeCall("none", Num(0), W, W)

Next ==
  \/ \E ok \in BOOLEAN, exps \in ExportSets, sleeps \in StartSleeps : Initialize(ok, exps, sleeps)
  \/ \E token \in Tokens, ptr \in MallocPtrs : SolveChallenge(token, ptr)
  \/ \E k \in 1..MaxSessions : SessionResume(k)
  \/ Tick
  \/ TimerFire
  \/ \E ms \in SleepMs : TickSleep(ms)
  \/ \E arg \in GuestArgs : SolveCallback(arg)
  \/ ValueCallOversized
  \/ ValueInvokeOversized
  \/ \E a \in GuestWriteAddrs : GuestWrite(a, GuestSolution)
  \/ GuestReturn

Spec == Init /\ [][Next]_vars

\* the sessions with a guest whose callback invocations are noted
NextAbsent ==
  \/ \E ok \in BOOLEAN, exps \in ExportSets, sleeps \in StartSleeps : Initialize(ok, exps, sleeps)
  \/ \E token \in Tokens, ptr \in MallocPtrs : SolveChallenge(token, ptr)
  \/ \E k \in 1..MaxSessions : SessionResume(k)
  \/ Tick
  \/ TimerFire
  \/ \E ms \in SleepMs : TickSleep(ms)
  \/ \E arg \in GuestArgs \cup {Undefined} : SolveCallbackNoted(arg)
  \/ GuestReturn

SpecAbsent == Init /\ [][NextAbsent]_vars

\* the reference table, driven by the calls of the bridge handlers
NextRefs ==
  \/ \E obj \in Storable : StoreObject(obj)
  \/ \E id \in (-1)..(nextRefId + 1) : GetObject(id)

SpecRefs == Init /\ [][NextRefs]_vars

\* the marshaller, driven by the calls of the bridge handlers
NextMarshal ==
  \/ \E ptr \in MarshalPtrs : ReadInt32(ptr)
  \/ \E ptr \in MarshalPtrs, value \in Values32 : WriteInt32(ptr, value)
  \/ \E ptr \in MarshalPtrs, value \in Values64 : WriteInt64(ptr, value)
  \/ \E r \in StringRanges : ReadString(r[1], r[2])

SpecMarshal == InitMarshal /\ [][NextMarshal]_vars

\* the calls of the guest to the ten handlers of the bridge
NextBridge ==
  \/ \E c \in Calls(CreateElementName, {InvalidByte}, {Beyond, SmallBigInt}) :
       StringVal(c[1], c[2])
  \/ \E c \in Calls(<<0, NavigatorName>>,
                    { <<2, UserAgentName>>, <<3, CreateElementName>>,
                      <<0, VercelChallengeTokenName>>, <<0, SolveName>>,
                      <<7, UserAgentName>>, <<2, PluginsName>>, <<8, <<48>>>> },
                    {Num(Len(memory) - 40), Beyond, SmallBigInt, HugeBigInt}) :
       ValueGet(c[1], c[2][1], c[2][2])
  \/ \E c \in Calls(<<2, UserAgentName, 0>>,
                    { <<0, UserAgentName, 0>>, <<2, UserAgentName, 7>>,
                      <<UnknownId, UserAgentName, 7>> },
                    {Beyond, SmallBigInt}) :
       ValueSet(c[1], c[2][1], c[2][2], c[2][3])
  \/ \E c \in Calls(<<5, 0, <<>>>>,
                    { <<0, 0, <<>>>>, <<6, 3, <<7>>>>, <<6, 3, <<>>>> },
                    {Num(Len(memory) - 48), Beyond, SmallBigInt, HugeBigInt}) :
       ValueCall(c[1], c[2][1], c[2][2], c[2][3])
  \/ \E c \in Calls(<<5, <<>>>>,
                    { <<0, <<>>>>, <<6, <<7>>>>, <<6, <<>>>> },
                    {Num(Len(memory) - 40), Beyond, SmallBigInt, HugeBigInt}) :
       ValueInvoke(c[1], c[2][1], c[2][2])
  \/ \E c \in Calls(<<5, <<>>>>, { <<0, <<>>>>, <<6, <<7>>>> },
                    {Num(Len(memory) - 40), Beyond, SmallBigInt}) :
       ValueNew(c[1], c[2][1], c[2][2])
  \/ \E inner \in {Num(Len(memory) - 48), HugeBigInt} :
       ValueCallNested(Num(0), 5, inner, 2, UserAgentName)
  \/ \E c \in Calls(7, {6}, {}) : FinalizeRef(c[1], c[2])
  \/ \E c \in Calls(6, {0, 7, 8}, {Num(Len(memory) - 22), Beyond, SmallBigInt}) :
       ValueLength(c[1], c[2])
  \/ \E c \in Calls(0, {6, 7}, {Beyond, SmallBigInt}) : ValuePrepareString(c[1], c[2])
  \/ \E c \in Calls(<<7, DestAddr, 4>>,
                    { <<0, DestAddr, 20>>, <<7, Len(memory) - 4, 4>>,
                      <<0, Len(memory) - 4, 20>>, <<7, Len(memory) + 1, 0>> },
                    {Beyond, SmallBigInt}) :
       ValueLoadString(c[1], c[2][1], c[2][2], c[2][3])
  \/ \E c \in Calls(<<2, 7>>, { <<0, 0>>, <<8, 9>> }, {Beyond, SmallBigInt}) :
       ValueIndex(c[1], c[2][1], c[2][2])

SpecBridge == InitBridge /\ [][NextBridge]_vars

\* the event loop runs every continuation queued as a microtask
FairSpec == Spec /\ \A k \in 1..MaxSessions : WF_vars(SessionResume(k))

(***************************************************************************)
(* Properties of the orchestrator                                          *)
(***************************************************************************)

\* the sessions whose promise has settled
Fulfilled(s) == s.outcome = "fulfilled"
Rejected(s) == s.outcome = "rejected"

\* C1: every solution string solveChallenge resolves with, whatever the
\* path, the token and the guest's behaviour, matches
\* ^1\.0;[a-zA-Z0-9]{16};[a-zA-Z0-9]{16};[a-zA-Z0-9]{16}$
C1_SolutionGrammar ==
  \A k \in DOMAIN sessions :
    Fulfilled(sessions[k]) => MatchesGrammar(sessions[k].result)

\* a session resolved by the callback path although the guest passed a string
\* outside the grammar to its callback
C1_Witness ==
  \E k \in DOMAIN sessions :
    /\ Fulfilled(sessions[k])
    /\ sessions[k].path = "callback"
    /\ sessions[k].guestArg # <<>>
    /\ ~MatchesGrammar(sessions[k].guestArg[1])

C4_SingleFlight ==
  [][ (/\ Len(sessions') = Len(sessions) + 1
       /\ \E k \in DOMAIN sessions : sessions[k].outcome = "pending")
      => (/\ Rejected(sessions'[Len(sessions')])
          /\ vercelChallengeToken' = vercelChallengeToken
          /\ Solve' = Solve
          /\ timers' = timers
          /\ \A k \in DOMAIN sessions : sessions'[k] = sessions[k]) ]_vars

C6_SessionsResolve ==
  /\ \A k \in 1..MaxSessions :
       (k \in DOMAIN sessions /\ sessions[k].ready)
         ~> (k \in DOMAIN sessions /\ Fulfilled(sessions[k]) /\ sessions[k].result # <<>>)
  /\ [](\A k \in DOMAIN sessions : sessions[k].ready => ~Rejected(sessions[k]))

\* two sessions on an initialized solver have resolved, one of them without
\* the guest ever invoking a callback
C6_Witness ==
  /\ Len(sessions) >= 2
  /\ \A k \in DOMAIN sessions : sessions[k].ready /\ Fulfilled(sessions[k])
  /\ \E k \in DOMAIN sessions :
       sessions[k].guestArg = <<>> /\ sessions[k].path = "callback"

(***************************************************************************)
(* Properties of the reference table                                       *)
(***************************************************************************)

\* the storeObject calls that inserted an entry, in call order
Allocations == SelectSeq(storeLog, LAMBDA e : e.alloc)

\* C8: getObject of an id >= 6 that storeObject returned for a value yields
\* that value in every later state (the value itself for the call that
\* inserted it, the entry that is === to it for a call that reused an id), and
\* the ids of the inserting calls are strictly increasing, starting at 6
C8_StoreThenResolve ==
  /\ \A i \in DOMAIN storeLog :
       storeLog[i].ret >= 6 =>
         IF storeLog[i].alloc
         THEN getObject(objectRefs, storeLog[i].ret) = storeLog[i].arg
         ELSE StrictEquals(getObject(objectRefs, storeLog[i].ret), storeLog[i].arg)
  /\ \A i \in DOMAIN storeLog : storeLog[i].alloc => storeLog[i].ret >= 6
  /\ Allocations # <<>> => Allocations[1].ret = 6
  /\ \A i, j \in DOMAIN Allocations : i < j => Allocations[i].ret < Allocations[j].ret
  /\ (lastCall.op = "get" /\ lastCall.arg >= 6) =>
       \A i \in DOMAIN storeLog :
         (storeLog[i].alloc /\ storeLog[i].ret = lastCall.arg) => lastCall.ret = storeLog[i].arg

\* three values have been inserted, one of them NaN, and getObject has just
\* been called with the id of the first
C8_Witness ==
  /\ Len(Allocations) = 3
  /\ \E i \in DOMAIN Allocations : Allocations[i].arg = NaN
  /\ lastCall.op = "get"
  /\ lastCall.arg = 6
  /\ lastCall.ret = Allocations[1].arg

\* the id of each singleton
ReservedId(v) ==
  IF v = GlobalThis THEN 1
  ELSE IF v = Navigator THEN 2
  ELSE IF v = Document THEN 3
  ELSE IF v = Crypto THEN 4
  ELSE IF v = WebGL THEN 5
  ELSE 0

\* C9: whatever calls came before, storeObject of a singleton returns its
\* reserved id (null and undefined 0, globalThis 1, navigator 2, document 3,
\* crypto 4, the WebGL constructor 5) and inserts no entry
C9_ReservedIds ==
  /\ \A i \in DOMAIN storeLog :
       storeLog[i].arg \in Singletons =>
         (storeLog[i].ret = ReservedId(storeLog[i].arg) /\ ~storeLog[i].alloc)
  /\ (lastCall.op = "store" /\ lastCall.arg \in Singletons) =>
       (objectRefs = lastCall.refs /\ nextRefId = lastCall.next)
  /\ \A id \in DOMAIN objectRefs : id >= 6 /\ objectRefs[id] \notin Singletons

\* a singleton has been stored before and another after an inserting call
C9_Witness ==
  /\ Len(storeLog) = 3
  /\ storeLog[1].arg = Navigator
  /\ storeLog[2].alloc
  /\ storeLog[3].arg = Null
  /\ lastCall.op = "store"

\* C10: no two entries of the table are === to each other, and storeObject
\* of a value that is === to an entry returns the id of that entry and leaves
\* the table and the counter unchanged
C10_NoDuplicateEntries ==
  /\ \A i, j \in DOMAIN objectRefs :
       i # j => ~StrictEquals(objectRefs[i], objectRefs[j])
  /\ (lastCall.op = "store" /\ Matches(lastCall.refs, lastCall.arg) # {}) =>
       /\ lastCall.ret \in Matches(lastCall.refs, lastCall.arg)
       /\ objectRefs = lastCall.refs
       /\ nextRefId = lastCall.next

\* with two entries in the table, the value of the second has just been
\* stored again
C10_Witness ==
  /\ lastCall.op = "store"
  /\ DOMAIN lastCall.refs = {6, 7}
  /\ StrictEquals(lastCall.refs[7], lastCall.arg)
  /\ lastCall.ret = 7

\* C11: getObject of an id that is neither reserved nor in the table (the
\* next id, a larger one, a negative one) yields undefined, raises nothing
\* and leaves the table and the counter unchanged
C11_UnknownIdIsAbsent ==
  /\ \A id \in ((-1)..(nextRefId + 1)) \ ((0..5) \cup DOMAIN objectRefs) :
       getObject(objectRefs, id) = Undefined
  /\ (lastCall.op = "get" /\ lastCall.arg \notin (0..5) \cup DOMAIN lastCall.refs) =>
       /\ lastCall.ret = Undefined
       /\ objectRefs = lastCall.refs
       /\ nextRefId = lastCall.next

\* with two entries in the table, getObject has just been called with the
\* next id
C11_Witness ==
  /\ DOMAIN objectRefs = {6, 7}
  /\ lastCall.op = "get"
  /\ lastCall.arg = nextRefId
  /\ lastCall.ret = Undefined

(***************************************************************************)
(* Properties of the memory marshaller                                     *)
(***************************************************************************)

\* the range [ptr, ptr + width) is wholly inside the buffer mem
InsideBuffer(mem, ptr, width) == ptr >= 0 /\ ptr + width <= Len(mem)

\* C12: for every ptr whose range [ptr, ptr + 4) is not wholly inside the
\* buffer (negative ptr included) the 32-bit read returns 0 and the 32-bit
\* write changes no byte; for every other ptr a write followed by a read
\* returns the written value modulo 2^32
C12_Int32Bounds ==
  /\ \A ptr \in (-5)..(Len(memory) + 4), value \in Values32 :
       IF InsideBuffer(memory, ptr, 4)
       THEN readInt32FromMemory(writeInt32ToMemory(memory, ptr, value), ptr)
              = WordOfInt(value)
       ELSE /\ readInt32FromMemory(memory, ptr) = <<0, 0>>
            /\ writeInt32ToMemory(memory, ptr, value) = memory
  /\ (lastCall.op = "readInt32" /\ ~InsideBuffer(lastCall.mem, lastCall.ptr, 4)) =>
       lastCall.ret = <<0, 0>>
  /\ (lastCall.op = "writeInt32" /\ ~InsideBuffer(lastCall.mem, lastCall.ptr, 4)) =>
       memory = lastCall.mem
  /\ (lastCall.op = "writeInt32" /\ InsideBuffer(lastCall.mem, lastCall.ptr, 4)) =>
       readInt32FromMemory(memory, lastCall.ptr) = WordOfInt(lastCall.value)

\* -1 has just been written to the last four bytes of the buffer, after a
\* write that was refused
C12_Witness ==
  /\ lastCall.op = "writeInt32"
  /\ lastCall.ptr = Len(memory) - 4
  /\ lastCall.value = -1
  /\ readInt32FromMemory(memory, lastCall.ptr) = <<65535, 65535>>
  /\ bridgeCalls = 2
  /\ lastCall.mem = DataSegment(MarshalMemLen)

\* C13 as stated: a 64-bit write whose range [ptr, ptr + 8) is not wholly
\* inside the buffer changes no byte of memory
C13_Int64AllOrNothing ==
  (lastCall.op = "writeInt64" /\ ~InsideBuffer(lastCall.mem, lastCall.ptr, 8)) =>
    memory = lastCall.mem

\* C14 as stated: readStringFromMemory(ptr, len) with ptr + len outside the
\* buffer returns the empty string
C14_ReadStringOutOfRange ==
  (lastCall.op = "readString" /\ lastCall.ptr + lastCall.len > Len(lastCall.mem)) =>
    lastCall.ret = <<>>

(***************************************************************************)
(* Properties of the object bridge                                         *)
(***************************************************************************)

\* the ten handlers
Handlers ==
  { "stringVal", "valueGet", "valueSet", "valueCall", "valueInvoke", "valueNew",
    "valueLength", "valuePrepareString", "valueLoadString", "valueIndex" }

\* C15 as stated: whatever stack pointer and frame a handler is called
\* with, no exception leaves the handler
C15_NoExceptionLeaves ==
  lastCall.op \in Handlers => ~lastCall.threw

\* the 32-bit slot at offset off of the frame at sp, and the string a frame
\* names by the pointer at offset 16 and the length at offset 24
FrameWord(mem, sp, off) == NumberOf(readInt32FromMemory(mem, sp + off))
FrameName(mem, sp) == readStringFromMemory(mem, FrameWord(mem, sp, 16), FrameWord(mem, sp, 24))

\* the last call is the handler op, called with a number sp whose frame of
\* width bytes lies inside the buffer
FrameCall(op, width) ==
  /\ lastCall.op = op
  /\ lastCall.sp.t = "number"
  /\ InsideBuffer(lastCall.mem, lastCall.sp.n, width)

\* C16 as stated: get-property with receiver id 0 and the name "navigator"
\* leaves id 2 in the result slot of the frame (sp + 32)
C16_NavigatorIsId2 ==
  (/\ FrameCall("valueGet", 40)
   /\ FrameWord(lastCall.mem, lastCall.sp.n, 8) = 0
   /\ FrameName(lastCall.mem, lastCall.sp.n) = NavigatorName)
    => FrameWord(memory, lastCall.sp.n, 32) = 2

\* C17 as stated: whatever calls came before, get-property on id 2 with the
\* name "userAgent" answers with the id of the fixed user-agent string
C17_UserAgentConstant ==
  (/\ FrameCall("valueGet", 40)
   /\ FrameWord(lastCall.mem, lastCall.sp.n, 8) = 2
   /\ FrameName(lastCall.mem, lastCall.sp.n) = UserAgentName)
    => getObject(objectRefs, FrameWord(memory, lastCall.sp.n, 32)) = Str(UserAgent)

\* the outputs of the last call, a call, invoke or construct with its result
\* slot at sp + ret and its exception flag at sp + exc: the flag is 0 or 1;
\* it is 1 exactly if the result slot holds the id of a stored error, and it
\* is 1 if the target at sp + 8 is not a function; with flag 0 the result
\* slot holds the id 0..5 or the id of an entry of the table
OutputsWritten(ret, exc) ==
  LET sp == lastCall.sp.n
      target == getObject(lastCall.refs, FrameWord(lastCall.mem, sp, 8))
      flag == ByteAt(memory, sp + exc)
      id == FrameWord(memory, sp, ret)
      result == getObject(objectRefs, id)
  IN /\ flag \in {0, 1}
     /\ flag = 1 <=> result.t = "error"
     /\ ~IsFunction(target) => flag = 1
     /\ id \in 0..5 \cup DOMAIN objectRefs
     /\ (flag = 0 /\ target = WebGL /\ lastCall.op # "valueNew") => id = 0

\* the last call is the handler op with a number sp in from..(to - 1)
AcceptedCall(op, from, to) ==
  /\ lastCall.op = op
  /\ lastCall.sp.t = "number"
  /\ lastCall.sp.n >= from
  /\ lastCall.sp.n < to

\* C18, amended: call-function with 0 <= sp < length - 48, invoke-function
\* with 0 <= sp < length - 40 and construct-value with its frame inside the
\* buffer write both outputs: flag 0 and the id of the returned value after
\* a successful call, flag 1 and the id of a stored error when the target
\* throws or is not a function
C18_BothOutputsWritten ==
  /\ AcceptedCall("valueCall", 0, Len(lastCall.mem) - 48) => OutputsWritten(32, 40)
  /\ AcceptedCall("valueInvoke", 0, Len(lastCall.mem) - 40) => OutputsWritten(24, 32)
  /\ FrameCall("valueNew", 40) => OutputsWritten(24, 32)

\* document.createElement was called through call-function with a string
\* argument: flag 0 and the id of the object it returned
C18_Witness ==
  /\ AcceptedCall("valueCall", 0, Len(lastCall.mem) - 48)
  /\ getObject(lastCall.refs, FrameWord(lastCall.mem, lastCall.sp.n, 8)) = Fn("createElement")
  /\ ByteAt(memory, lastCall.sp.n + 40) = 0
  /\ getObject(objectRefs, FrameWord(memory, lastCall.sp.n, 32)).t = "object"

\* C18 as stated: every call, invoke or construct whose frame lies inside
\* the buffer writes both outputs
C18_ValidFrameOutputs ==
  /\ FrameCall("valueCall", 48) => OutputsWritten(32, 40)
  /\ FrameCall("valueInvoke", 40) => OutputsWritten(24, 32)
  /\ FrameCall("valueNew", 40) => OutputsWritten(24, 32)

\* the last call is one of the handlers ops, called with a stack pointer
\* above Number.MAX_SAFE_INTEGER whose remainder lies after the buffer
OversizedCallOf(ops) ==
  /\ lastCall.op \in ops
  /\ IsOversized(lastCall.sp)
  /\ NumberOfSp(lastCall.sp) >= Len(lastCall.mem)

\* C19 as stated: get-property, call-function and invoke-function with such
\* a stack pointer change no byte of memory, add no entry to the table and
\* do not invoke the solution callback
C19_OversizedIsNoOp ==
  OversizedCallOf({"valueGet", "valueCall", "valueInvoke"}) =>
    /\ memory = lastCall.mem
    /\ objectRefs = lastCall.refs
    /\ nextRefId = lastCall.next
    /\ ~lastCall.solved

\* the last call is one of the handlers ops, called with a number sp
\* outside the buffer
OutsideCallOf(ops) ==
  /\ lastCall.op \in ops
  /\ lastCall.sp.t = "number"
  /\ (lastCall.sp.n < 0 \/ lastCall.sp.n >= Len(lastCall.mem))

\* C20 as stated: a call of any of the ten handlers with a number sp outside
\* the buffer leaves memory and the reference table (entries and next id)
\* unchanged
C20_OutsideIsNoOp ==
  OutsideCallOf(Handlers) =>
    /\ memory = lastCall.mem
    /\ objectRefs = lastCall.refs
    /\ nextRefId = lastCall.next

(***************************************************************************)
(* Properties of the memory scan                                           *)
(***************************************************************************)

\* the ways the future of a session awaiting its solution can be settled:
\* resolve(String(tokenStr)), the 30 s timer, Solve(null)
Settlements ==
  { <<"fulfilled", GuestSolution, "none">>, <<"rejected", <<>>, "timeout">>,
    <<"rejected", <<>>, "empty">> }

\* the sessions at await solutionPromise whose future has been settled
AwaitingSessions ==
  { [NewSession(token, TRUE, FALSE) EXCEPT !.pc = "solution", !.promise = w[1],
                                            !.value = w[2], !.reason = w[3]] :
      token \in Tokens, w \in Settlements }

\* the scan has run only in sessions whose future timed out; resuming a
\* settled session against the memory mem scans exactly when the reason is
\* the timeout, ends the session (no second resumption, hence no second
\* scan), and returns the callback's string when the future was fulfilled
ScanDiscipline(all, instance, exports, mem) ==
  /\ \A k \in DOMAIN all :
       /\ all[k].scanned => all[k].reason = "timeout"
       /\ all[k].path = "callback" => ~all[k].scanned
       /\ all[k].path = "scan" => all[k].scanned
  /\ \A s \in AwaitingSessions :
       LET d == Continue(s, instance, exports, mem)
       IN /\ d.scanned = (s.reason = "timeout")
          /\ d.pc = "done" /\ ~Runnable(d)
          /\ s.promise = "fulfilled" => d.result = s.value /\ d.path = "callback"
          /\ s.reason = "empty" => d.result = Solutions[s.token] /\ d.path = "fallback"

\* C21: the memory scan runs only on the timeout path and at most once per
\* session (never for a session resolved by the callback or failed for another
\* reason), and once a session has ended no later step, a write of a matching
\* string into memory included, changes its result
C21_ScanOnlyOnTimeout ==
  [][ /\ ScanDiscipline(sessions, wasmInstance, wasmExports, memory)
      /\ ScanDiscipline(sessions', wasmInstance', wasmExports', memory')
      /\ \A k \in DOMAIN sessions :
           sessions[k].pc = "done" /\ sessions[k].outcome # "pending" =>
             /\ sessions'[k].outcome = sessions[k].outcome
             /\ sessions'[k].result = sessions[k].result
             /\ sessions'[k].path = sessions[k].path
             /\ sessions'[k].scanned = sessions[k].scanned ]_vars

\* a session resolved by the callback has ended unscanned, and the memory now
\* holds a string matching the grammar that differs from its result
C21_Witness ==
  \E k \in DOMAIN sessions :
    /\ sessions[k].path = "callback" /\ ~sessions[k].scanned
    /\ searchSolutionInMemory(wasmInstance, wasmExports, memory) # <<>>
    /\ searchSolutionInMemory(wasmInstance, wasmExports, memory)[1] # sessions[k].result

(***************************************************************************)
(* The memory scan on buffers filled by the guest                          *)
(***************************************************************************)

\* bytes of the buffer that is scanned, and stores of the guest in a run
ScanMemLen == 112
MaxScanWrites == 2

\* a second solution, "1.0;" 16 x's ";" 16 y's ";" 16 z's
OtherSolution ==
  SolutionPrefix \o Repeat(120, 16) \o Semicolon \o Repeat(121, 16)
    \o Semicolon \o Repeat(122, 16)

\* the addresses the guest stores a text at: the start of the buffer, the
\* last address the text and one more byte fit at, and the address at which
\* the text ends with the buffer
ScanAddrs == { 0, 2, ScanMemLen - 55, ScanMemLen - 54 }

\* the texts the guest stores: a solution, a solution followed by "A" or by
\* a line feed, and a solution cut after 30 characters
ScanTexts ==
  { GuestSolution, OtherSolution, GuestSolution \o <<65>>, OtherSolution \o <<10>>,
    SubSeq(GuestSolution, 1, 30) }

\* the record of a call of searchSolutionInMemory
ScanCall(op, mem, ret) == [op |-> op, mem |-> mem, ret |-> ret]

InitScan ==
  /\ InitLoaded(Zeros(ScanMemLen))
  /\ lastCall = ScanCall("none", <<>>, <<>>)

\* the guest stores bytes at address a of its linear memory
GuestStore(a, bytes) ==
  /\ bridgeCalls < MaxScanWrites
  /\ bridgeCalls' = bridgeCalls + 1
  /\ memory' = WriteBytes(memory, a, bytes)
  /\ UNCHANGED <<objectRefs, nextRefId, lastCall, storeLog, browserEnv, walletVars, loaderVars>>

\* solveChallenge calls this.searchSolutionInMemory()
SearchSolution ==
  /\ lastCall' = ScanCall("scan", memory,
                          searchSolutionInMemory(wasmInstance, wasmExports, memory))
  /\ UNCHANGED <<memory, objectRefs, nextRefId, storeLog, browserEnv, bridgeCalls,
                 walletVars, loaderVars>>

NextScan ==
  \/ \E a \in ScanAddrs, bytes \in ScanTexts : GuestStore(a, bytes)
  \/ SearchSolution

SpecScan == InitScan /\ [][NextScan]_vars

\* the addresses at which mem holds a byte sequence matching the grammar
MatchAddrs(mem) ==
  { a \in 0..(Len(mem) - 54) : MatchesGrammar(Decode(Slice(mem, a, a + 54))) }

\* the lowest-addressed match of mem, <<>> when there is none
LowestMatch(mem) ==
  LET first == CHOOSE a \in MatchAddrs(mem) : \A b \in MatchAddrs(mem) : a <= b
  IN IF MatchAddrs(mem) = {} THEN <<>> ELSE <<Decode(Slice(mem, first, first + 54))>>

\* C22: searchSolutionInMemory returns the lowest-addressed byte sequence of
\* the memory that matches the solution grammar, wherever it lies in the
\* buffer and whatever byte follows it, and null only when there is none
C22_LowestMatchReturned ==
  lastCall.op = "scan" => lastCall.ret = LowestMatch(lastCall.mem)

(***************************************************************************)
(* The guest's clock: runtime.ticks                                        *)
(***************************************************************************)

\* calls of runtime.ticks in a run
MaxTicksCalls == 3

\* const startTime = Date.now() - performance.now(), evaluated once by
\* initialize, in ms from a reference instant
StartTimes == { 0, 60000 }

\* runtime.ticks with its result truncated to 16 bits
ticks_Int16(startTime, perf) == (startTime + perf) % 65536

\* 'runtime.ticks': () => startTime + performance.now()
ticks(startTime, perf) == startTime + perf

\* the record of a call of runtime.ticks: the result, and the result of the
\* call before it
TicksCall(op, start, prev, ret, calls) ==
  [op |-> op, start |-> start, prev |-> prev, ret |-> ret, calls |-> calls]

InitTicks ==
  /\ InitLoaded(Zeros(MemLen))
  /\ \E start \in StartTimes : lastCall = TicksCall("none", start, 0, 0, 0)

\* the running guest calls runtime.ticks(); performance.now() is the host's
\* monotonic clock
Ticks ==
  /\ guestRunning
  /\ lastCall.calls < MaxTicksCalls
  /\ lastCall' = TicksCall("ticks", lastCall.start, lastCall.ret,
                           ticks(lastCall.start, now), lastCall.calls + 1)
  /\ UNCHANGED <<objectRefs, nextRefId, storeLog, walletVars, solverVars, bridgeVars>>

NextTicks ==
  \/ Ticks
  \/ Tick
  \/ TimerFire
  \/ \E ms \in SleepMs : TickSleep(ms)
  \/ GuestReturn

SpecTicks == InitTicks /\ [][NextTicks]_vars

\* C23: of two calls of ticks() in sequence, with any host calls, timer
\* firings and passage of time between them, the second result is not less
\* than the first
C23_TicksMonotonic ==
  lastCall.op = "ticks" /\ lastCall.calls >= 2 => lastCall.ret >= lastCall.prev

\* a second call of ticks() made after time has passed and the guest has
\* been re-entered by a timer: its result is greater than the first
C23_Witness ==
  /\ lastCall.op = "ticks" /\ lastCall.calls >= 2
  /\ lastCall.ret > lastCall.prev
  /\ lastCall.start > 0
  /\ nextTimerId > 2 /\ timers = {}

(***************************************************************************)
(* Properties of runtime.ticksleep                                         *)
(***************************************************************************)

\* the ticksleep timers of a set of timers
Sleeps(tms) == { tm \in tms : tm.kind = "sleep" }

\* a step seen from the ticksleep timers: a call of ticksleep adds one timer
\* with a fresh identifier, due ms after the call, and neither enters nor
\* leaves the guest; a timer is removed only once it is due and the guest is
\* not running, and its removal enters go_scheduler exactly when the instance
\* and the export exist; go_scheduler is entered in no other way
SleepStep ==
  LET added == Sleeps(timers' \ timers)
      fired == Sleeps(timers \ timers')
  IN /\ added # {} =>
          /\ guestRunning' = guestRunning
          /\ sessions' = sessions
          /\ fired = {}
     /\ \A tm \in added :
          /\ tm.id >= nextTimerId /\ tm.id < nextTimerId'
          /\ \A old \in timers : old.id # tm.id
          /\ \E ms \in SleepMs \cup {0} : tm.due = now + ms
     /\ \A tm \in fired :
          /\ fired = {tm}
          /\ tm.due <= now
          /\ ~guestRunning
          /\ guestRunning' = (wasmInstance # "null" /\ "go_scheduler" \in wasmExports)
     /\ ~guestRunning /\ guestRunning' => fired # {}

\* the event loop runs the queued continuations and the expired timers, the
\* host's clock advances, and the guest returns from go_scheduler
FairTimers ==
  /\ Spec
  /\ \A k \in 1..MaxSessions : WF_vars(SessionResume(k))
  /\ WF_vars(Tick) /\ WF_vars(TimerFire) /\ WF_vars(GuestReturn)

\* C24: ticksleep(ms) returns to its caller without invoking the guest, and
\* go_scheduler is invoked for that sleep exactly once (its timer fires, and
\* only once), not before ms of host time have passed since the call, and
\* not at all if the export is missing
C24_SleepContinuation ==
  /\ [][SleepStep]_vars
  /\ \A id \in 1..MaxTimers :
       (\E tm \in Sleeps(timers) : tm.id = id /\ tm.due <= MaxNow)
         ~> (\A tm \in timers : tm.id # id)

\* the guest, entered by the timer of the start function, has called
\* ticksleep(50), returned, and been entered again by that timer
C24_Witness ==
  /\ sessions = <<>>
  /\ nextTimerId >= 3
  /\ Sleeps(timers) = {}
  /\ guestRunning
  /\ now >= 50

(***************************************************************************)
(* Further properties of the object bridge                                 *)
(***************************************************************************)

\* C25: the reference table is append-only under every host call,
\* finalizeRef included: an id once assigned keeps resolving to the same
\* value, no entry is removed or overwritten, and the next id never decreases
C25_AppendOnly ==
  [][ /\ nextRefId' >= nextRefId
      /\ \A id \in DOMAIN objectRefs :
           /\ id \in DOMAIN objectRefs'
           /\ objectRefs'[id] = objectRefs[id]
           /\ getObject(objectRefs', id) = getObject(objectRefs, id)
           /\ id < nextRefId ]_vars

\* finalizeRef has just been called for id 7, which still resolves to the
\* string "createElement" stored before the call
C25_Witness ==
  /\ lastCall.op = "finalizeRef"
  /\ FrameWord(lastCall.mem, lastCall.sp.n, 8) = 7
  /\ 7 \in DOMAIN lastCall.refs
  /\ getObject(objectRefs, 7) = Str(CreateElementName)
  /\ nextRefId = lastCall.next

\* the bytes of the frame of valueCall at sp that the handler itself writes:
\* the result slot and the exception flag
OutputBytes(sp) == (sp + 32)..(sp + 35) \cup {sp + 40}

C27_NoBigIntStored ==
  \A id \in DOMAIN objectRefs : objectRefs[id].t # "bigint"

\* value.length of any value: the number of characters of a string, the
\* length of an object that has one, 0 otherwise
JsLength(v) ==
  IF v.t = "string" THEN Len(v.s)
  ELSE IF IsPrimitive(v) THEN 0
  ELSE LengthOf(v)

\* C28: get-length writes the length of the resolved target as a 64-bit
\* value at sp + 16 for every value that has a length (the plugin list, a
\* stored string), and 0 when the target is absent or has no length
C28_LengthWritten ==
  FrameCall("valueLength", 24) =>
    /\ FrameWord(memory, lastCall.sp.n, 16)
         = JsLength(getObject(lastCall.refs, FrameWord(lastCall.mem, lastCall.sp.n, 8)))
    /\ FrameWord(memory, lastCall.sp.n, 20) = 0

\* the step is a call of the handler op with a number sp
CallStep(op) ==
  /\ bridgeCalls' = bridgeCalls + 1
  /\ lastCall'.op = op
  /\ lastCall'.sp.t = "number"

\* C29: set-property whose target id resolves to absent (id 0 or an id that
\* was never assigned) is a silent no-op: no host object, no byte of linear
\* memory (the frame included) and no entry of the reference table changes,
\* and nothing is raised
C29_SetOnAbsentIsNoOp ==
  [][ (/\ CallStep("valueSet")
       /\ IsNullish(getObject(lastCall'.refs, FrameWord(lastCall'.mem, lastCall'.sp.n, 8))))
      => /\ memory' = lastCall'.mem
         /\ objectRefs' = objectRefs /\ nextRefId' = nextRefId
         /\ browserEnv' = browserEnv
         /\ vercelChallengeToken' = vercelChallengeToken /\ Solve' = Solve
         /\ sessions' = sessions
         /\ ~lastCall'.threw ]_vars

\* set-property has just been called at sp 0 with an unassigned target id,
\* the name "userAgent" and the id of a stored string as value
C29_Witness ==
  /\ lastCall.op = "valueSet"
  /\ lastCall.sp = Num(0)
  /\ FrameWord(lastCall.mem, 0, 8) = UnknownId
  /\ FrameName(lastCall.mem, 0) = UserAgentName
  /\ FrameWord(lastCall.mem, 0, 32) = 7
  /\ 7 \in DOMAIN lastCall.refs
  /\ memory = lastCall.mem

\* the bytes of String(value): what load-string has to copy for the target
\* id of the frame at sp
LoadedText(refs, mem, sp) == Encode(StringOf(getObject(refs, FrameWord(mem, sp, 8))))

\* C30: load-string writes exactly the first min(byteLength, capacity)
\* UTF-8 bytes of the string into [dest, dest + min) and changes no other
\* byte of memory; if that destination range does not fit in the buffer it
\* writes nothing
C30_LoadStringWritesPrefix ==
  (/\ lastCall.op = "valueLoadString"
   /\ lastCall.sp.t = "number"
   /\ wasmInstance # "null")
    => LET bytes == LoadedText(lastCall.refs, lastCall.mem, lastCall.sp.n)
           dest == FrameWord(lastCall.mem, lastCall.sp.n, 16)
           capacity == FrameWord(lastCall.mem, lastCall.sp.n, 24)
           min == IF Len(bytes) < capacity THEN Len(bytes) ELSE capacity
       IN /\ Len(memory) = Len(lastCall.mem)
          /\ IF dest + min <= Len(lastCall.mem)
             THEN \A a \in 0..(Len(memory) - 1) :
                    ByteAt(memory, a) = IF a \in dest..(dest + min - 1)
                                          THEN bytes[a - dest + 1]
                                          ELSE ByteAt(lastCall.mem, a)
             ELSE memory = lastCall.mem

\* load-string has just copied the first four bytes of a longer stored
\* string to DestAddr: they differ from what the guest had there, and the
\* byte after them is the guest's
C30_Witness ==
  /\ lastCall.op = "valueLoadString"
  /\ lastCall.sp = Num(0)
  /\ wasmInstance # "null"
  /\ FrameWord(lastCall.mem, 0, 16) = DestAddr
  /\ FrameWord(lastCall.mem, 0, 24) = 4
  /\ Len(LoadedText(lastCall.refs, lastCall.mem, 0)) > 4
  /\ Slice(memory, DestAddr, DestAddr + 4) = SubSeq(LoadedText(lastCall.refs, lastCall.mem, 0), 1, 4)
  /\ Slice(memory, DestAddr, DestAddr + 4) # Slice(lastCall.mem, DestAddr, DestAddr + 4)
  /\ ByteAt(memory, DestAddr + 4) = ByteAt(lastCall.mem, DestAddr + 4)

\* the guest calls prepare-string on the id v at sp 0, then load-string at
\* sp 0 with the id s and the length n that call reported and the
\* destination DestAddr, then prepare-string on s: the three handler states
RoundTrip(H, v) ==
  With(valuePrepareString(
         [H EXCEPT !.memory = GuestFrame(@, Num(0), << <<8, v>> >>, <<>>, <<>>)], Num(0)),
       LAMBDA P1 :
    With(<<FrameWord(P1.memory, 0, 0), FrameWord(P1.memory, 0, 8)>>, LAMBDA ns :
      With(valueLoadString(
             [P1 EXCEPT !.memory =
                GuestFrame(@, Num(0), << <<8, ns[2]>>, <<16, DestAddr>>, <<24, ns[1]>> >>,
                           <<>>, <<>>)], Num(0)),
           LAMBDA L :
        With(valuePrepareString(
               [L EXCEPT !.memory = GuestFrame(@, Num(0), << <<8, ns[2]>> >>, <<>>, <<>>)],
               Num(0)),
             LAMBDA P2 : [n |-> ns[1], s |-> ns[2], loaded |-> L.memory,
                          n2 |-> FrameWord(P2.memory, 0, 0),
                          s2 |-> FrameWord(P2.memory, 0, 8)]))))

\* the ids that resolve to a value: the predefined ones and the table's keys
StoredIds == (0..5) \cup DOMAIN objectRefs

\* C31: for any stored value v, prepare-string reports the byte length n of
\* String(v) and a string id s such that a following load-string(s, dest, n)
\* with an in-range destination writes exactly the n UTF-8 bytes of
\* String(v), and a second prepare-string on s returns the same s and n
C31_PrepareLoadRoundTrip ==
  wasmInstance # "null" =>
    \A v \in StoredIds :
      With(<<RoundTrip(Bridge, v), Encode(StringOf(getObject(objectRefs, v)))>>, LAMBDA rt :
        /\ rt[1].n = Len(rt[2])
        /\ DestAddr + rt[1].n <= Len(memory) =>
             /\ Slice(rt[1].loaded, DestAddr, DestAddr + rt[1].n) = rt[2]
             /\ \A a \in (FrameBytes..(Len(memory) - 1)) \ (DestAddr..(DestAddr + rt[1].n - 1)) :
                  ByteAt(rt[1].loaded, a) = ByteAt(memory, a)
        /\ rt[1].s2 = rt[1].s
        /\ rt[1].n2 = rt[1].n)

\* prepare-string has just been called at sp 0 on a stored string whose
\* only character is U+FFFD: it reported three bytes and the id of that
\* string, and the round trip from this state loads the three bytes
C31_Witness ==
  /\ lastCall.op = "valuePrepareString"
  /\ lastCall.sp = Num(0)
  /\ wasmInstance # "null"
  /\ FrameWord(lastCall.mem, 0, 8) \in DOMAIN lastCall.refs
  /\ lastCall.refs[FrameWord(lastCall.mem, 0, 8)] = Str(<<65533>>)
  /\ FrameWord(memory, 0, 0) = 3
  /\ FrameWord(memory, 0, 8) = FrameWord(lastCall.mem, 0, 8)
  /\ Slice(RoundTrip(Bridge, FrameWord(memory, 0, 8)).loaded, DestAddr, DestAddr + 3)
       = <<239, 191, 189>>

(***************************************************************************)
(* Properties of the session's start and of its execution attempts        *)
(***************************************************************************)

\* the value the guest obtains when it calls get-property with receiver id 0
\* and the name "vercelChallengeToken" at stack pointer 0 of a buffer of
\* BridgeMemLen bytes while the namespace holds tok: the value its result
\* id resolves to
TokenLookup(tok) ==
  With(GuestGet([BeforeSession EXCEPT !.token = tok], 0, VercelChallengeTokenName),
       LAMBDA R : getObject(R.refs, FrameWord(R.memory, 0, 32)))

\* the step is a solveChallenge call, on a solver whose instance exports a
\* memory, that starts session k
StartStep(k) ==
  /\ Len(sessions') = Len(sessions) + 1
  /\ k = Len(sessions')
  /\ wasmInstance # "null"
  /\ "memory" \in wasmExports

\* C32: solveChallenge publishes the token and registers the callback, the
\* future armed with the 30 s timeout, before the execution attempt runs:
\* the first invocation of the session's own callback is the host's, with
\* the solution of the session's token, and a get-property with receiver
\* id 0 and the name "vercelChallengeToken" resolves to the session's token
C32_PublishedBeforeAttempt ==
  [][ \A k \in 1..MaxSessions : StartStep(k) =>
        /\ vercelChallengeToken' = Str(sessions'[k].token)
        /\ Solve' = k
        /\ sessions'[k].timerId = nextTimerId
        /\ sessions'[k].deadline = now + SolveTimeoutMs
        /\ sessions'[k].first
             = <<[by |-> "host", arg |-> Str(Solutions[sessions'[k].token])]>>
        /\ \A j \in 1..(k - 1) : sessions'[j].first = sessions[j].first
        /\ TokenLookup(vercelChallengeToken') = Str(sessions'[k].token) ]_vars

\* the second session has just started with a token other than the first
\* session's: it is at its first await, the namespace holds its token, its
\* callback is registered and was invoked by the host, and get-property
\* resolves to its token
C32_Witness ==
  /\ Len(sessions) = 2
  /\ sessions[2].pc = "run"
  /\ sessions[2].token # sessions[1].token
  /\ sessions[2].token # <<>>
  /\ vercelChallengeToken = Str(sessions[2].token)
  /\ Solve = 2
  /\ sessions[2].first # <<>>
  /\ sessions[2].first[1].by = "host"
  /\ TokenLookup(vercelChallengeToken) = Str(sessions[2].token)

\* the exports resume, run and main among calls, in call order
EntryCalls(calls) == SelectSeq(calls, LAMBDA c : c \in {"resume", "run", "main"})

\* at most one of resume, run, main was called, in that priority among the
\* exports of the module
EntryPriority(calls, exports) ==
  /\ Len(EntryCalls(calls)) <= 1
  /\ \A j \in DOMAIN calls :
       /\ calls[j] \in exports
       /\ calls[j] = "run" => "resume" \notin exports
       /\ calls[j] = "main" => "resume" \notin exports /\ "run" \notin exports

\* modules with any choice of the entry points resume, run, main
EntrySets == { {"memory", "_start"} \cup e : e \in SUBSET {"resume", "run", "main"} }

\* C33: once the registered callback has been invoked directly with the
\* synthesized solution, no guest export is called in that session; in every
\* session at most one of resume, run, main is called, in that priority,
\* which is also what the attempts after the direct one do on their own
C33_AttemptsStopAtFirstSuccess ==
  /\ \A k \in DOMAIN sessions :
       /\ (sessions[k].first # <<>> /\ sessions[k].first[1].by = "host")
            => sessions[k].calls = <<>>
       /\ EntryPriority(sessions[k].calls, wasmExports)
  /\ \A k \in DOMAIN sessions, exps \in EntrySets :
       sessions[k].ready =>
         EntryPriority(RunExports(k, Str(sessions[k].token), 0,
                                  [Shared EXCEPT !.exports = exps]).sessions[k].calls, exps)

\* a session on a module that exports _start and resume has ended through
\* the callback path with the solution the host synthesized, and none of
\* the exports was called in it
C33_Witness ==
  \E k \in DOMAIN sessions :
    /\ {"_start", "resume"} \subseteq wasmExports
    /\ sessions[k].pc = "done"
    /\ sessions[k].path = "callback"
    /\ sessions[k].first = <<[by |-> "host", arg |-> Str(Solutions[sessions[k].token])]>>
    /\ sessions[k].calls = <<>>

\* the 30 s timer of session k is pending
TimeoutPending(tms, k) == \E tm \in tms : tm.kind = "timeout" /\ tm.sess = k

C35_AlwaysViaCallback ==
  \A k \in DOMAIN sessions :
    sessions[k].ready =>
      /\ sessions[k].promise # "pending"
      /\ sessions[k].outcome # "pending" =>
           /\ Fulfilled(sessions[k])
           /\ sessions[k].result = Solutions[sessions[k].token]
           /\ sessions[k].path = "callback"

\* C35 amended: on an initialized solver solveChallenge(token) returns
\* exactly generateSolution(token) and never waits for the timeout; by the
\* callback path when the module exports a memory, the future fulfilled in
\* the call itself; and from its catch block, with no future created, when
\* the module exports none
C35_ExactSolutionWithoutWaiting ==
  \A k \in DOMAIN sessions :
    sessions[k].ready =>
      /\ sessions[k].promise # "pending"
      /\ sessions[k].reason = "none"
      /\ "memory" \in wasmExports =>
           /\ sessions[k].promise = "fulfilled"
           /\ sessions[k].value = Solutions[sessions[k].token]
      /\ "memory" \notin wasmExports =>
           /\ sessions[k].promise = "none"
           /\ Fulfilled(sessions[k]) /\ sessions[k].path = "fallback"
      /\ sessions[k].outcome # "pending" =>
           /\ Fulfilled(sessions[k])
           /\ sessions[k].result = Solutions[sessions[k].token]
           /\ sessions[k].path = IF "memory" \in wasmExports THEN "callback" ELSE "fallback"

\* a session on a module without a memory export has returned
\* generateSolution of the token "abc123" from the catch block, at time 0
C35_Witness ==
  \E k \in DOMAIN sessions :
    /\ sessions[k].ready
    /\ "memory" \notin wasmExports
    /\ sessions[k].token = <<97, 98, 99, 49, 50, 51>>
    /\ Fulfilled(sessions[k])
    /\ sessions[k].path = "fallback"
    /\ sessions[k].result = Solutions[sessions[k].token]
    /\ now = 0

\* C36: once the future of a session is resolved or rejected, no later
\* invocation of the global callback (by the guest, by a host call with an
\* oversized stack pointer, or in a timer slice of the scheduler) changes
\* the future, and the value solveChallenge returns is the one the future
\* was settled with
C36_FirstInvocationFixes ==
  [][ \A k \in DOMAIN sessions :
        sessions[k].promise \in {"fulfilled", "rejected"} =>
          /\ sessions'[k].promise = sessions[k].promise
          /\ sessions'[k].value = sessions[k].value
          /\ sessions'[k].reason = sessions[k].reason
          /\ sessions'[k].first = sessions[k].first
          /\ (sessions[k].promise = "fulfilled" /\ sessions'[k].outcome # "pending")
               => /\ Fulfilled(sessions'[k])
                  /\ sessions'[k].result = sessions[k].value ]_vars

\* the guest has invoked the callback of a session with the string "no"
\* after the host's invocation, in a timer slice, and the session has
\* returned the value of the host's invocation
C36_Witness ==
  \E k \in DOMAIN sessions :
    /\ sessions[k].first # <<>>
    /\ sessions[k].first[1].by = "host"
    /\ sessions[k].guestArg = << <<110, 111>> >>
    /\ sessions[k].pc = "done"
    /\ sessions[k].result = sessions[k].first[1].arg.s
    /\ sessions[k].result # <<110, 111>>

INTERVAL == 12
WalletCount == 5
MaxLoaded == 6
MaxClock == 14

Clocks == INTERVAL..MaxClock
LoadedClaims == {0, INTERVAL}

generateWallet(index) == [lastClaim |-> 0, claimed |-> FALSE]

\* a wallets.json of n wallets, the first k of them claimed at hour l
WalletFile(n, k, l) ==
  [j \in 1..n |-> IF j <= k THEN [lastClaim |-> l, claimed |-> TRUE] ELSE generateWallet(j - 1)]

RECURSIVE FilterClaimed(_)
FilterClaimed(ws) ==
  IF ws = <<>> THEN <<>>
  ELSE IF Head(ws).claimed THEN <<Head(ws)>> \o FilterClaimed(Tail(ws))
       ELSE FilterClaimed(Tail(ws))

\* [] when reading, parsing or rewriting the file throws
loadAndFilterWallets(file, readable) == IF readable THEN FilterClaimed(file) ELSE <<>>

RECURSIVE FillWallets(_)
FillWallets(ws) ==
  IF Len(ws) < WalletCount THEN FillWallets(Append(ws, generateWallet(Len(ws)))) ELSE ws

Eligible_IgnoreClaimed(wallet, t) == t - wallet.lastClaim >= INTERVAL

\* the test of line 254
Eligible(wallet, t) == t - wallet.lastClaim >= INTERVAL /\ ~wallet.claimed

AllClaimed(ws) == \A j \in 1..Len(ws) : ws[j].claimed

\* the loop from index i on, up to its next await or its break; again is
\* TRUE while the pass from index 0 may still be started anew
RECURSIVE forLoop(_, _, _, _)
forLoop(ws, i, t, again) ==
  IF i < WalletCount
  THEN IF Eligible(ws[i + 1], t)
       THEN [pc |-> "claiming", i |-> i, now |-> t, clock |-> t, result |-> FALSE]
       ELSE forLoop(ws, i + 1, t, again)
  ELSE IF AllClaimed(ws)
       THEN [pc |-> "done", i |-> i, now |-> t, clock |-> t, result |-> FALSE]
       ELSE IF again THEN forLoop(ws, 0, t, FALSE)
            ELSE [pc |-> "spinning", i |-> i, now |-> t, clock |-> t, result |-> FALSE]

Later(t, dt) == IF t + dt > MaxClock THEN MaxClock ELSE t + dt

\* unlimitedClaim up to the await of its first saveWallets
UnlimitedClaim(n, k, l, readable, t) ==
  /\ claimLoop.pc = "idle"
  /\ wallets' = FillWallets(loadAndFilterWallets(WalletFile(n, k, l), readable))
  /\ claimLoop' = [pc |-> "saving0", i |-> 0, now |-> 0, clock |-> t, result |-> FALSE]
  /\ UNCHANGED <<tableVars, solverVars, bridgeVars>>

\* claimTokens settles: true, false, or the import of node-fetch rejects
ClaimReturns(outcome, dt) ==
  /\ claimLoop.pc = "claiming"
  /\ wallets' = IF outcome = "true"
                THEN [wallets EXCEPT ![claimLoop.i + 1] =
                        [lastClaim |-> claimLoop.now, claimed |-> TRUE]]
                ELSE wallets
  /\ claimLoop' = [claimLoop EXCEPT
                     !.pc = CASE outcome = "true" -> "saving"
                              [] outcome = "false" -> "sleeping"
                              [] OTHER -> "rejected",
                     !.result = (outcome = "true"),
                     !.clock = Later(@, dt)]
  /\ UNCHANGED <<tableVars, solverVars, bridgeVars>>

\* saveWallets settles: the file is written or fs.writeFile rejects
SaveReturns(written, dt) ==
  /\ claimLoop.pc \in {"saving0", "saving"}
  /\ claimLoop' =
       IF claimLoop.pc = "saving0"
       THEN IF written THEN forLoop(wallets, 0, Later(claimLoop.clock, dt), TRUE)
            ELSE [claimLoop EXCEPT !.pc = "rejected0", !.clock = Later(@, dt)]
       ELSE [claimLoop EXCEPT !.pc = IF written THEN "sleeping" ELSE "rejected",
                              !.clock = Later(@, dt)]
  /\ UNCHANGED <<wallets, tableVars, solverVars, bridgeVars>>

\* the three seconds of line 263 are over
SleepReturns(dt) ==
  /\ claimLoop.pc = "sleeping"
  /\ claimLoop' = forLoop(wallets, claimLoop.i + 1, Later(claimLoop.clock, dt), TRUE)
  /\ UNCHANGED <<wallets, tableVars, solverVars, bridgeVars>>

NextClaim ==
  \/ \E n \in 0..MaxLoaded, k \in 0..MaxLoaded, l \in LoadedClaims, readable \in BOOLEAN,
        t \in Clocks : k <= n /\ UnlimitedClaim(n, k, l, readable, t)
  \/ \E outcome \in {"true", "false", "throws"}, dt \in 0..1 : ClaimReturns(outcome, dt)
  \/ \E written \in BOOLEAN, dt \in 0..1 : SaveReturns(written, dt)
  \/ \E dt \in 0..1 : SleepReturns(dt)

SpecClaim == Init /\ [][NextClaim]_vars

InLoop == {"claiming", "saving", "sleeping", "spinning"}

\* no claim is in flight for a wallet whose claimed flag is true
NoClaimedSubmitted ==
  claimLoop.pc = "claiming" =>
    /\ claimLoop.i < WalletCount
    /\ ~wallets[claimLoop.i + 1].claimed

\* a wallet's claimed and lastClaim fields change only when claimTokens has
\* returned true for that wallet, and claimed is never reset
MarkedAfterTrue ==
  wallets # <<>> =>
    \A j \in 1..Len(wallets) :
      /\ wallets[j].claimed => (wallets'[j].claimed /\ wallets'[j] = wallets[j])
      /\ wallets'[j] # wallets[j] =>
           /\ claimLoop.pc = "claiming"
           /\ claimLoop.i + 1 = j
           /\ claimLoop'.result
           /\ claimLoop'.pc = "saving"
           /\ wallets'[j] = [lastClaim |-> claimLoop.now, claimed |-> TRUE]

\* C38 as stated: unlimitedClaim never submits a claim for a wallet whose
\* claimed flag is true, sets claimed and lastClaim only after claimTokens
\* returned true for that wallet, never resets claimed, and leaves its loop
\* only in a state where every wallet is claimed
C38_LeavesOnlyAllClaimed ==
  /\ [](NoClaimedSubmitted)
  /\ [][MarkedAfterTrue]_vars
  /\ [][(claimLoop.pc \in InLoop /\ claimLoop'.pc \notin InLoop) => AllClaimed(wallets')]_vars
  /\ [](claimLoop.pc = "done" => AllClaimed(wallets))

\* C38 amended: unlimitedClaim never submits a claim for a wallet whose
\* claimed flag is true, sets claimed and lastClaim only after claimTokens
\* returned true for that wallet, never resets claimed, and leaves its loop
\* by break only in a state where every wallet is claimed; the one other
\* way out of the loop is an exception of the awaited claimTokens or
\* saveWallets, which rejects unlimitedClaim whatever the wallets are
C38_LeavesByBreakOrException ==
  /\ [](NoClaimedSubmitted)
  /\ [][MarkedAfterTrue]_vars
  /\ [][(claimLoop.pc \in InLoop /\ claimLoop'.pc \notin InLoop) =>
          \/ claimLoop'.pc = "done" /\ AllClaimed(wallets') /\ claimLoop.pc = "sleeping"
          \/ claimLoop'.pc = "rejected" /\ claimLoop.pc \in {"claiming", "saving"}]_vars
  /\ [](claimLoop.pc = "done" => AllClaimed(wallets))

\* the loop has claimed for every generated wallet, for two of them at
\* different hours, and has left by break
C38_Witness ==
  /\ claimLoop.pc = "done"
  /\ AllClaimed(wallets)
  /\ \E j \in 1..WalletCount : wallets[j].lastClaim > INTERVAL
  /\ \E j \in 1..WalletCount : wallets[j].lastClaim = INTERVAL

\* C39: in every reachable state the keys of the reference table are
\* exactly the contiguous range 6..nextRefId-1, so that nextRefId is 6 plus
\* the number of entries, and no entry's value is null, undefined, the root
\* namespace or one of the four browser singletons
C39_TableStructure ==
  /\ DOMAIN objectRefs = 6..(nextRefId - 1)
  /\ nextRefId = 6 + Cardinality(DOMAIN objectRefs)
  /\ \A id \in DOMAIN objectRefs :
       objectRefs[id] \notin {Null, Undefined, GlobalThis, Navigator, Document, Crypto, WebGL}

\* the table holds two entries after three calls of storeObject: one call
\* inserted, one was given null or the root namespace and inserted nothing,
\* and the last one inserted the entry with the highest key
C39_Witness ==
  /\ Len(storeLog) = 3
  /\ Cardinality(DOMAIN objectRefs) = 2
  /\ \E i \in 1..2 : storeLog[i].arg \in {Null, GlobalThis} /\ ~storeLog[i].alloc
  /\ storeLog[3].alloc
  /\ storeLog[3].ret = nextRefId - 1

====
